---------------------------- MODULE Spec2Model ----------------------------
(***************************************************************************)
(* A model of the interactive MCP clients of this repository: the REPL of  *)
(* sequentialthinking_interactive.py (the auto-continuing thought loop)    *)
(* and the REPL of gcloud_mcp_interactive.py (the multi-step plan loop).   *)
(*                                                                         *)
(* One session of one client is modelled.  The translator (Gemini) and the *)
(* remote tool server are the environment: every reply they can give is a  *)
(* nondeterministic input of the action that receives it.                  *)
(***************************************************************************)
EXTENDS Integers, Sequences, FiniteSets, TLC

(***************************************************************************)
(* Bounds of the model.                                                    *)
(***************************************************************************)
\* largest thoughtNumber / totalThoughts a command string carries
MaxThought == 3
\* largest number of content items in one tool result
MaxItems == 2
\* largest number of " && "-separated steps in a gcloud command string
MaxSteps == 3
\* the per-turn counters of tool calls and translator calls stop counting here
MaxCalls == 3

VARIABLES
    client,              \* which script runs: "seq" or "gcloud"
    nlp,                 \* thinker.client / GOOGLE_API_KEY: a translator is configured
    pc,                  \* where the REPL coroutine stands
    cancel_pending,      \* the runner cancelled the main task; delivered at the next await
    user_input,          \* both clients: the stripped line read by input()
    cmd_str,             \* seq: the command string of the execution loop
    tool_name,           \* seq: parse_command's first result
    tool_args,           \* seq: parse_command's second result
    last_thought_result, \* seq: text of the last JSON object seen in a result
    command_args_str,    \* gcloud: translate_to_gcloud's return value
    steps,               \* gcloud: the " && "-separated steps of a multi-step plan
    i,                   \* gcloud: 1-based index of the current step (0: no plan)
    calls,               \* history: session.call_tool invocations of this turn (seq)
    invoked,             \* history: the step indices call_tool was invoked for (gcloud)
    translations,        \* history: translator invocations of this turn
    report,              \* history: what the turn last reported to the user
    err,                 \* history: the last error that occurred in this turn
    translator_failed,   \* history: the last translator invocation of this turn raised
    interrupted,         \* history: Ctrl-C arrived while this turn awaited a call or
                         \*          the next thought
    phase,               \* comparison of two sessions: 0 none, 1 the session without
                         \*          translator, 2 the session with it, 3 both over
    text,                \* comparison: the line typed in both sessions
    server,              \* comparison: what the server does with the k-th call
    trace,               \* comparison: the calls completed in the running session
    trace1,              \* comparison: the calls completed in the first session
    outstanding,         \* history: the requests sent and not yet answered, in the
                         \*          order of sending ("translate" or "call")
    waited,              \* time spent waiting for the translator or the server
    current_path         \* filesystem client: the directory the prompt stands in

vars == <<client, nlp, pc, cancel_pending, user_input, cmd_str, tool_name, tool_args,
          last_thought_result, command_args_str, steps, i, calls, invoked,
          translations, report, err, translator_failed, interrupted,
          phase, text, server, trace, trace1, outstanding, waited, current_path>>

Min(a, b) == IF a < b THEN a ELSE b

(***************************************************************************)
(* Values of parsed arguments: Python bool, int and str, kept apart by a   *)
(* tag so that True, 1 and "1" are three values.                           *)
(***************************************************************************)
PyBool(b) == [t |-> "bool", b |-> b]
PyInt(n) == [t |-> "int", n |-> n]
PyStr(s) == [t |-> "str", s |-> s]
\* what json.loads decodes: a list of values, a dict from keys to values
PyList(xs) == [t |-> "list", xs |-> xs]
PyDict(d) == [t |-> "dict", d |-> d]

\* Python truthiness of a value, as `if needs_next and ...` evaluates it
Truthy(v) ==
    CASE v.t = "bool" -> v.b
      [] v.t = "int" -> v.n # 0
      [] OTHER -> v.s # ""

\* the integer a bool or int stands for in a comparison (True is 1)
AsInt(v) == IF v.t = "bool" THEN (IF v.b THEN 1 ELSE 0) ELSE v.n

\* `a < b` raises TypeError between a str and a number
LtRaises(a, b) == (a.t = "str") # (b.t = "str")

\* dict.get(key, default)
Get(args, key, default) == IF key \in DOMAIN args THEN args[key] ELSE default

(***************************************************************************)
(* Paths of the filesystem client.  A path string is its components and    *)
(* whether it starts with "/"; "" is the relative path of no component.    *)
(* A component is a directory name or "..".                                *)
(***************************************************************************)
Path(abs, parts) == [abs |-> abs, parts |-> parts]
\* filesystem_interactive.py line 35: "/projects"
CONTAINER_MOUNT_POINT == Path(TRUE, <<"projects">>)

\* str.startswith between path strings: the components before the last of the
\* prefix are those of the path, and the last is the beginning of a name of
\* the path ("/projects2" starts with "/projects")
NameStartsWith(name, prefix) ==
    name = prefix \/ (name = "projects2" /\ prefix = "projects")
PathStartsWith(p, prefix) ==
    LET n == Len(prefix.parts)
    IN  IF n = 0 THEN prefix.abs => p.abs
        ELSE /\ p.abs = prefix.abs
             /\ Len(p.parts) >= n
             /\ SubSeq(p.parts, 1, n - 1) = SubSeq(prefix.parts, 1, n - 1)
             /\ NameStartsWith(p.parts[n], prefix.parts[n])

\* os.path.join(a, b) for a relative b
join(a, b) == IF b.abs THEN b ELSE Path(a.abs, a.parts \o b.parts)

\* os.path.normpath: ".." removes the component before it, at the root it is
\* dropped, and at the start of a relative path it stays
RECURSIVE Collapse(_, _, _)
Collapse(abs, done, rest) ==
    IF rest = << >> THEN done
    ELSE IF Head(rest) # ".." THEN Collapse(abs, Append(done, Head(rest)), Tail(rest))
    ELSE IF done # << >> /\ done[Len(done)] # ".."
         THEN Collapse(abs, SubSeq(done, 1, Len(done) - 1), Tail(rest))
    ELSE IF abs THEN Collapse(abs, done, Tail(rest))
    ELSE Collapse(abs, Append(done, ".."), Tail(rest))
normpath(p) == Path(p.abs, Collapse(p.abs, << >>, p.parts))

(***************************************************************************)
(* Command strings of the sequential-thinking client.  A string is the     *)
(* sequence of its whitespace-separated tokens; a token is a bare word     *)
(* (k = "") or key=value.  The word "'" is a lone quote character.         *)
(***************************************************************************)
Word(w) == [k |-> "", v |-> w]
KV(k, v) == [k |-> k, v |-> v]
Quote == Word("'")
\* a markdown fence (three backquotes) and a line break inside a translator reply
Fence == Word("[fence]")
NL == Word("\n")

\* str.isdigit and int(): the decimal numerals, one of them with leading zeros
DigitStrings == {ToString(n) : n \in 0 .. MaxThought + 1} \cup {"007"}
IntOf(s) == IF s = "007" THEN 7 ELSE CHOOSE n \in 0 .. MaxThought + 1 : ToString(n) = s

\* str.lower, on the words that have upper-case letters
Lower(w) ==
    CASE w \in {"TRUE", "True", "tRuE"} -> "true"
      [] w \in {"FALSE", "False"} -> "false"
      [] w = "Not" -> "not"
      [] w = "Found" -> "found"
      [] w = "Cannot" -> "cannot"
      [] w = "Could" -> "could"
      [] w = "Invalid" -> "invalid"
      [] w = "Specify" -> "specify"
      [] w = "ERROR:" -> "error:"
      [] w = "PERMISSION_DENIED" -> "permission_denied"
      [] OTHER -> w

\* the text of a token as shlex returns it
TokenText(tok) == IF tok.k = "" THEN tok.v ELSE tok.k \o "=" \o tok.v

\* shlex.split raises ValueError("No closing quotation")
Unbalanced(s) == Cardinality({j \in 1 .. Len(s) : s[j] = Quote}) % 2 = 1

IsArg(tok) == tok.k # ""
IsLexeme(tok) == tok \notin {Quote, NL}

\* shlex removes the quotes around a quoted substring and keeps its white space
Unquoted(v) ==
    CASE v = "\"x y\"" -> "x y"
      [] v = "\"['a']\"" -> "['a']"
      [] v = "\"{'a':1}\"" -> "{'a':1}"
      [] OTHER -> v

\* shlex.split on a string with balanced quotes: white space separates, a quoted
\* substring is part of one token
shlex_split(s) ==
    LET parts == SelectSeq(s, IsLexeme)
    IN  [j \in 1 .. Len(parts) |-> [k |-> parts[j].k, v |-> Unquoted(parts[j].v)]]

\* line 108: the first and the last character of a value that has brackets
Ends(v) ==
    CASE v \in {"[1,2]", "[]", "[a]", "['a']", "[1,]"} -> <<"[", "]">>
      [] v \in {"{}", "{'a':1}", "{1}"} -> <<"{", "}">>
      [] v = "[1,2}" -> <<"[", "}">>
      [] v = "[1,2" -> <<"[", "2">>
      [] OTHER -> <<"", "">>
IsBracketed(v) == Ends(v) \in {<<"[", "]">>, <<"{", "}">>}

\* line 109: v.replace("'", '"')
ReplaceQuotes(v) ==
    CASE v = "['a']" -> "[\"a\"]"
      [] v = "{'a':1}" -> "{\"a\":1}"
      [] OTHER -> v

\* json.loads: the decoded document, or JSONDecodeError
JsonError == [t |-> "raise"]
json_loads(doc) ==
    CASE doc = "[1,2]" -> PyList(<<PyInt(1), PyInt(2)>>)
      [] doc = "[]" -> PyList(<< >>)
      [] doc = "[\"a\"]" -> PyList(<<PyStr("a")>>)
      [] doc = "{}" -> PyDict(<< >>)
      [] doc = "{\"a\":1}" -> PyDict([key \in {"a"} |-> PyInt(1)])
      [] OTHER -> JsonError

\* a variant that compares the value with the literals as written
Coerce_CaseSensitive(v) ==
    IF v = "true" THEN PyBool(TRUE)
    ELSE IF v = "false" THEN PyBool(FALSE)
    ELSE IF v \in DigitStrings THEN PyInt(IntOf(v))
    ELSE IF IsBracketed(v)
    THEN LET decoded == json_loads(ReplaceQuotes(v))
         IN  IF decoded = JsonError THEN PyStr(v) ELSE decoded
    ELSE PyStr(v)

\* lines 104-111: the typed value of the text after '='; what the decoding
\* raises is swallowed by the bare except and the text is kept
Coerce(v) ==
    IF Lower(v) = "true" THEN PyBool(TRUE)
    ELSE IF Lower(v) = "false" THEN PyBool(FALSE)
    ELSE IF v \in DigitStrings THEN PyInt(IntOf(v))
    ELSE IF IsBracketed(v)
    THEN LET decoded == json_loads(ReplaceQuotes(v))
         IN  IF decoded = JsonError THEN PyStr(v) ELSE decoded
    ELSE PyStr(v)

\* a variant that takes a token without '=' for a flag that is set
RECURSIVE ArgsOf_BareIsFlag(_)
ArgsOf_BareIsFlag(parts) ==
    IF parts = << >> THEN << >>
    ELSE LET front == ArgsOf_BareIsFlag(SubSeq(parts, 1, Len(parts) - 1))
             last == parts[Len(parts)]
             name == IF IsArg(last) THEN last.k ELSE last.v
         IN  [key \in DOMAIN front \cup {name} |->
                 IF key = name THEN (IF IsArg(last) THEN Coerce(last.v) ELSE PyBool(TRUE))
                 ELSE front[key]]

\* lines 101-112: the dict built from the tokens after the tool name; a later
\* occurrence of a key overwrites an earlier one, tokens without '=' are skipped
RECURSIVE ArgsOf(_)
ArgsOf(parts) ==
    IF parts = << >> THEN << >>
    ELSE LET front == ArgsOf(SubSeq(parts, 1, Len(parts) - 1))
             last == parts[Len(parts)]
         IN  IF IsArg(last)
             THEN [key \in DOMAIN front \cup {last.k} |->
                      IF key = last.k THEN Coerce(last.v) ELSE front[key]]
             ELSE front

\* parse_command's None
None == ""

\* a variant that splits without looking for the closing quotation
parse_command_NoQuoteCheck(s) ==
    LET parts == shlex_split(s)
    IN  IF parts = << >> THEN [tool_name |-> None, tool_args |-> << >>]
        ELSE [tool_name |-> TokenText(parts[1]), tool_args |-> ArgsOf(Tail(parts))]

parse_command(s) ==
    IF Unbalanced(s) THEN [tool_name |-> None, tool_args |-> << >>]
    ELSE LET parts == shlex_split(s)
         IN  IF parts = << >> THEN [tool_name |-> None, tool_args |-> << >>]
             ELSE [tool_name |-> TokenText(parts[1]), tool_args |-> ArgsOf(Tail(parts))]

(***************************************************************************)
(* The command strings the model enumerates, as user input and as          *)
(* translator output: a tool name followed by any subset of the three      *)
(* arguments that drive the loop, typed as the tool's schema types them    *)
(* (lines 35-45), plus the empty string and a string with an open quote.   *)
(***************************************************************************)
ToolWords == {"sequentialthinking", "tool_name", "list"}
FlagTexts == {"", "true", "false"}
NumTexts == {""} \cup {ToString(n) : n \in 1 .. MaxThought}

Opt(k, v) == IF v = "" THEN << >> ELSE <<KV(k, v)>>

MkCmd(tool, flag, num, total) ==
    <<Word(tool)>> \o Opt("thoughtNumber", num) \o Opt("totalThoughts", total)
                   \o Opt("nextThoughtNeeded", flag)

\* every argument combination for the thought tool; for the other tool names the
\* absent, the smallest and the largest number
EdgeTexts == {"", "1", ToString(MaxThought)}
Commands ==
    {MkCmd("sequentialthinking", f, n, m) : f \in FlagTexts, n \in NumTexts, m \in NumTexts}
    \cup {MkCmd(tl, f, n, m) : tl \in ToolWords, f \in FlagTexts,
                               n \in EdgeTexts, m \in EdgeTexts}
SeqStrings ==
    Commands \cup {<< >>, <<Word("sequentialthinking"), Quote>>,
                   <<Fence, Word("list"), Fence>>}

Exit == <<Word("exit")>>

(***************************************************************************)
(* Tool results: the content list of a CallToolResult.                     *)
(***************************************************************************)
JsonMore == "{\"nextThoughtNeeded\": true}"
JsonDone == "{\"nextThoughtNeeded\": false}"
ErrorText == "ERROR: permission denied"
Texts == {JsonMore, JsonDone, ErrorText}
TextItem(s) == [type |-> "text", text |-> s]
ImageItem == [type |-> "image", text |-> ""]
Items == {TextItem(s) : s \in Texts} \cup {ImageItem}
Results == UNION {[1 .. n -> Items] : n \in 0 .. MaxItems}

\* `"ERROR:" in content.text`
HasErrorMarker(s) == s = ErrorText
\* text.strip().startswith("{") and json.loads succeeds
IsJsonObject(s) == s \in {JsonMore, JsonDone}

\* some text item of the result carries the marker
ResultHasError(r) == \E j \in 1 .. Len(r) : r[j].type = "text" /\ HasErrorMarker(r[j].text)

\* lines 182-193: the last JSON object among the text items, "{}" when none
RECURSIVE LastThought(_)
LastThought(r) ==
    IF r = << >> THEN "{}"
    ELSE LET item == r[Len(r)]
         IN  IF item.type = "text" /\ IsJsonObject(item.text) THEN item.text
             ELSE LastThought(SubSeq(r, 1, Len(r) - 1))

(***************************************************************************)
(* The translator.  A reply is what chat.send_message does: it raises, or  *)
(* it returns a text, which may span lines and carry markdown fences.      *)
(***************************************************************************)
Raised == [raises |-> TRUE, text |-> << >>]
Reply(s) == [raises |-> FALSE, text |-> s]
FencedTexts ==
    {<<Fence, NL, Word("list"), NL, Fence>>, <<Fence, NL, Word("list"), Fence>>,
     <<NL, Word("list"), NL>>}
SeqReplies == {Raised} \cup {Reply(s) : s \in SeqStrings \cup FencedTexts}

\* str.strip
RECURSIVE LStrip(_)
LStrip(s) == IF s # << >> /\ s[1] = NL THEN LStrip(Tail(s)) ELSE s
RECURSIVE RStrip(_)
RStrip(s) ==
    IF s # << >> /\ s[Len(s)] = NL THEN RStrip(SubSeq(s, 1, Len(s) - 1)) ELSE s
Strip(s) == RStrip(LStrip(s))

NLs(s) == {j \in 1 .. Len(s) : s[j] = NL}
StartsWithFence(s) == s # << >> /\ s[1] = Fence
EndsWithFence(s) == s # << >> /\ s[Len(s)] = Fence
\* line 83: result.split("\n", 1)[1], for a result with a line break
AfterFirstLine(s) ==
    LET first == CHOOSE j \in NLs(s) : \A m \in NLs(s) : j <= m
    IN  SubSeq(s, first + 1, Len(s))
\* line 85: result.rsplit("\n", 1)[0]
BeforeLastLine(s) ==
    IF NLs(s) = {} THEN s
    ELSE LET last == CHOOSE j \in NLs(s) : \A m \in NLs(s) : m <= j
         IN  SubSeq(s, 1, last - 1)

\* lines 78-88: send_message raises, or line 83 raises IndexError on a fenced
\* reply of one line
TranslationFails(reply) ==
    \/ reply.raises
    \/ StartsWithFence(Strip(reply.text)) /\ NLs(Strip(reply.text)) = {}

\* lines 80-86
Unfenced(t) ==
    LET result == Strip(t)
    IN  IF StartsWithFence(result)
        THEN LET body == AfterFirstLine(result)
             IN  Strip(IF EndsWithFence(body) THEN BeforeLastLine(body) ELSE body)
        ELSE result

\* a variant that returns nothing when no translator is configured
generate_tool_call_NoChatEmpty(chat, prompt, reply) ==
    IF ~chat THEN << >>
    ELSE IF TranslationFails(reply) THEN prompt
    ELSE Unfenced(reply.text)

\* a variant that drops the input when the translator raises
generate_tool_call_Empty(chat, prompt, reply) ==
    IF ~chat THEN prompt
    ELSE IF TranslationFails(reply) THEN << >>
    ELSE Unfenced(reply.text)

\* SequentialThinker.generate_tool_call
generate_tool_call(chat, prompt, reply) ==
    IF ~chat THEN prompt
    ELSE IF TranslationFails(reply) THEN prompt
    ELSE Unfenced(reply.text)

\* a variant whose follow-up prompt reads as a thought call that continues
FollowUp_AsCommand(thought, number) ==
    <<Word("sequentialthinking"), KV("thoughtNumber", "1"), KV("totalThoughts", "3"),
      KV("nextThoughtNeeded", "true")>>

\* line 214: the follow-up prompt, a string of bare words
FollowUp(thought, number) ==
    <<Word("The"), Word("previous"), Word("tool"), Word(thought), Word(ToString(number))>>

(***************************************************************************)
(* Lines 198-227: what the loop does after a result was printed.           *)
(*   "continue": ask the translator for the next thought                   *)
(*   "stop":     break                                                     *)
(*   "raise":    the comparison raised, caught at line 229                 *)
(***************************************************************************)
\* a variant that compares with <= instead of <
ShouldContinue_Le(chat, name, args, res) ==
    IF ~(chat /\ name = "sequentialthinking") THEN "stop"
    ELSE LET needs_next == Get(args, "nextThoughtNeeded", PyBool(FALSE))
             curr_thought == Get(args, "thoughtNumber", PyInt(0))
             total_thoughts == Get(args, "totalThoughts", PyInt(0))
         IN  IF ~Truthy(needs_next) THEN "stop"
             ELSE IF AsInt(curr_thought) <= AsInt(total_thoughts) THEN "continue"
             ELSE "stop"

\* a variant that lets the server's echo of nextThoughtNeeded overrule the arguments
ShouldContinue_FromResult(chat, name, args, res) ==
    IF ~(chat /\ name = "sequentialthinking") THEN "stop"
    ELSE LET needs_next == IF LastThought(res) = "{}"
                           THEN Truthy(Get(args, "nextThoughtNeeded", PyBool(FALSE)))
                           ELSE LastThought(res) = JsonMore
             curr_thought == Get(args, "thoughtNumber", PyInt(0))
             total_thoughts == Get(args, "totalThoughts", PyInt(0))
         IN  IF ~needs_next THEN "stop"
             ELSE IF AsInt(curr_thought) < AsInt(total_thoughts) THEN "continue"
             ELSE "stop"

\* a variant that decides on the arguments of any tool
ShouldContinue_AnyTool(chat, name, args, res) ==
    IF ~chat THEN "stop"
    ELSE LET needs_next == Get(args, "nextThoughtNeeded", PyBool(FALSE))
             curr_thought == Get(args, "thoughtNumber", PyInt(0))
             total_thoughts == Get(args, "totalThoughts", PyInt(0))
         IN  IF ~Truthy(needs_next) THEN "stop"
             ELSE IF LtRaises(curr_thought, total_thoughts) THEN "raise"
             ELSE IF AsInt(curr_thought) < AsInt(total_thoughts) THEN "continue"
             ELSE "stop"

ShouldContinue(chat, name, args, res) ==
    IF ~(chat /\ name = "sequentialthinking") THEN "stop"
    ELSE LET needs_next == Get(args, "nextThoughtNeeded", PyBool(FALSE))
             curr_thought == Get(args, "thoughtNumber", PyInt(0))
             total_thoughts == Get(args, "totalThoughts", PyInt(0))
         IN  IF ~Truthy(needs_next) THEN "stop"
             ELSE IF LtRaises(curr_thought, total_thoughts) THEN "raise"
             ELSE IF AsInt(curr_thought) < AsInt(total_thoughts) THEN "continue"
             ELSE "stop"

NoReport == [kind |-> "none", step |-> 0]
Said(kind, step) == [kind |-> kind, step |-> step]

\* lines 221-227: what is printed when the loop stops after a result.  "complete"
\* is the line "Sequence complete (or limit reached)."; "done" is no line at all
StopReport(chat, name, args) ==
    IF /\ chat /\ name = "sequentialthinking"
       /\ Truthy(Get(args, "nextThoughtNeeded", PyBool(FALSE)))
    THEN Said("complete", 0)
    ELSE Said("done", 0)


(***************************************************************************)
(* Shared pieces of the two REPL loops.                                    *)
(***************************************************************************)
Bump(n) == Min(n + 1, MaxCalls)

SeqLocals == <<cmd_str, tool_name, tool_args, last_thought_result>>
GcloudLocals == <<command_args_str, steps, i>>
Session == <<client, nlp>>
Harness == <<phase, text, server, trace1, waited, current_path>>

\* a request is sent / answered
Sent(q, req) == Append(q, req)
Done(q, req) ==
    IF \E j \in 1 .. Len(q) : q[j] = req
    THEN LET first == CHOOSE j \in 1 .. Len(q) : q[j] = req /\ \A m \in 1 .. j - 1 : q[m] # req
         IN  SubSeq(q, 1, first - 1) \o SubSeq(q, first + 1, Len(q))
    ELSE q
\* what the coroutine is suspended on: `await session.call_tool`, or the
\* translator's blocking call
Awaited == IF pc = "calling" THEN "call" ELSE "translate"
\* a variant that goes on without the answer
Resumed_NoWait == outstanding
\* the coroutine goes on when the request it waits for is answered
Resumed == Done(outstanding, Awaited)

\* a completed call joins the record of the session when two sessions are compared
Outcome(raises, r) == [raises |-> raises, result |-> r]
Observe(out) ==
    IF phase = 0 THEN trace
    ELSE Append(trace, [tool |-> tool_name, args |-> tool_args, out |-> out])
History == <<calls, invoked, translations, report, err, translator_failed, interrupted>>

\* a new turn starts: input() returned the non-empty line u.  The locals of the
\* previous turn are dead here (each is assigned before it is read: lines 164,
\* 170, 182 and 247, 256), so the model clears them.
StartTurn(u) ==
    /\ user_input' = u
    /\ pc' = "translating"
    /\ cmd_str' = << >> /\ tool_name' = None /\ tool_args' = << >>
    /\ last_thought_result' = "{}"
    /\ command_args_str' = << >> /\ steps' = << >> /\ i' = 0
    /\ calls' = 0 /\ invoked' = << >> /\ translations' = 0
    /\ report' = NoReport /\ err' = "none"
    /\ translator_failed' = FALSE /\ interrupted' = FALSE
    /\ outstanding' = IF nlp THEN Sent(outstanding, "translate") ELSE outstanding
    /\ UNCHANGED <<Session, Harness, trace, cancel_pending>>

\* lines 160-161 and 242-244: `break` out of the REPL loop
Quit ==
    /\ pc' = "exited"
    /\ report' = Said("quit", 0)
    /\ UNCHANGED <<Session, Harness, trace, outstanding,
                   cancel_pending, user_input, SeqLocals, GcloudLocals, calls,
                   invoked, translations, err, translator_failed, interrupted>>

\* `await session.call_tool(...)` is reached.  A pending cancellation is delivered
\* here as CancelledError, which no handler of the loop catches: the session ends,
\* and the request may or may not have been written to the server before.
AwaitCall(sent) ==
    IF cancel_pending THEN pc' = "exited" /\ sent \in BOOLEAN
    ELSE pc' = "calling" /\ sent = TRUE

(***************************************************************************)
(* sequentialthinking_interactive.py, run_interactive_session              *)
(***************************************************************************)

\* lines 157-161: input() returns; an empty line reads again
SeqInput(u) ==
    /\ client = "seq" /\ pc = "prompt"
    /\ IF u = << >> THEN UNCHANGED vars
       ELSE IF u = Exit THEN Quit
       ELSE StartTurn(u)

\* line 171: the model's own placeholder name is taken for the thought tool
FixName(name) == IF name = "tool_name" THEN "sequentialthinking" ELSE name

\* a variant in which a command without arguments runs with the arguments that
\* the variable held before
SeqLoopTop_KeepsArgs(s) ==
    LET parsed == parse_command(s)
        name == FixName(parsed.tool_name)
    IN  /\ cmd_str' = s
        /\ tool_name' = name
        /\ tool_args' = IF parsed.tool_args = << >> THEN tool_args ELSE parsed.tool_args
        /\ IF name = None
           THEN /\ pc' = "prompt"
                /\ err' = "parse"
                /\ report' = Said("nothing", 0)
                /\ outstanding' = Resumed
                /\ UNCHANGED calls
           ELSE /\ UNCHANGED err
                /\ report' = Said("executing", 0)
                /\ \E sent \in BOOLEAN :
                      /\ AwaitCall(sent)
                      /\ calls' = IF sent THEN Bump(calls) ELSE calls
                      /\ outstanding' = IF sent THEN Sent(Resumed, "call") ELSE Resumed

\* lines 170-179: one pass from the top of the execution loop, with command
\* string s, to `break` or to the await of call_tool
SeqLoopTop(s) ==
    LET parsed == parse_command(s)
        name == FixName(parsed.tool_name)
    IN  /\ cmd_str' = s
        /\ tool_name' = name
        /\ tool_args' = parsed.tool_args
        /\ IF name = None
           THEN /\ pc' = "prompt"
                /\ err' = "parse"
                /\ report' = Said("nothing", 0)
                /\ outstanding' = Resumed
                /\ UNCHANGED calls
           ELSE /\ UNCHANGED err
                /\ report' = Said("executing", 0)
                /\ \E sent \in BOOLEAN :
                      /\ AwaitCall(sent)
                      /\ calls' = IF sent THEN Bump(calls) ELSE calls
                      /\ outstanding' = IF sent THEN Sent(Resumed, "call") ELSE Resumed

\* lines 164-179: the initial translation returns and the loop is entered
SeqTranslated(reply) ==
    /\ client = "seq" /\ pc = "translating"
    /\ SeqLoopTop(generate_tool_call(nlp, user_input, reply))
    /\ translations' = IF nlp THEN Bump(translations) ELSE translations
    /\ translator_failed' = (nlp /\ TranslationFails(reply))
    /\ user_input' = << >>
    /\ UNCHANGED <<Session, Harness, trace,
                   cancel_pending, last_thought_result, GcloudLocals, invoked,
                   interrupted>>

\* lines 179-227: call_tool returns r
SeqCallReturns(r) ==
    /\ client = "seq" /\ pc = "calling"
    /\ last_thought_result' = LastThought(r)
    /\ trace' = Observe(Outcome(FALSE, r))
    /\ LET decision == ShouldContinue(nlp, tool_name, tool_args, r)
       IN  /\ pc' = IF decision = "continue" THEN "next_thought" ELSE "prompt"
           /\ err' = IF decision = "raise" THEN "remote"
                     ELSE IF ResultHasError(r) THEN "application" ELSE err
           /\ report' = CASE decision = "raise" -> Said("tool_failed", 0)
                          [] decision = "continue" -> Said("continuing", 0)
                          [] OTHER -> StopReport(nlp, tool_name, tool_args)
           /\ outstanding' = IF decision = "continue" THEN Sent(Resumed, "translate")
                             ELSE Resumed
    /\ UNCHANGED <<Session, Harness, cancel_pending, user_input, cmd_str, tool_name,
                   tool_args, GcloudLocals, calls, invoked, translations,
                   translator_failed, interrupted>>

\* a variant without the handler of line 229: the exception leaves the REPL loop
SeqCallRaises_Propagates ==
    /\ client = "seq" /\ pc = "calling"
    /\ pc' = "exited"
    /\ err' = "remote"
    /\ report' = Said("crashed", 0)
    /\ trace' = Observe(Outcome(TRUE, << >>))
    /\ outstanding' = Resumed
    /\ UNCHANGED <<Session, Harness, cancel_pending, user_input, SeqLocals, GcloudLocals,
                   calls, invoked, translations, translator_failed, interrupted>>

\* lines 229-231: call_tool raises
SeqCallRaises ==
    /\ client = "seq" /\ pc = "calling"
    /\ pc' = "prompt"
    /\ err' = "remote"
    /\ report' = Said("tool_failed", 0)
    /\ trace' = Observe(Outcome(TRUE, << >>))
    /\ outstanding' = Resumed
    /\ UNCHANGED <<Session, Harness, cancel_pending, user_input, SeqLocals, GcloudLocals,
                   calls, invoked, translations, translator_failed, interrupted>>

\* a variant that asks for the next thought without the result
NextPrompt_NoResult ==
    LET curr_thought == Get(tool_args, "thoughtNumber", PyInt(0))
    IN  FollowUp("{}", AsInt(curr_thought) + 1)

\* lines 207 and 214: the prompt that asks for the thought after the one executed
NextPrompt ==
    LET curr_thought == Get(tool_args, "thoughtNumber", PyInt(0))
    IN  FollowUp(last_thought_result, AsInt(curr_thought) + 1)

\* lines 214-220 and 170-179: the translator answers the follow-up prompt and the
\* loop goes round
SeqNextThought(reply) ==
    /\ client = "seq" /\ pc = "next_thought"
    /\ SeqLoopTop(generate_tool_call(nlp, NextPrompt, reply))
    /\ translations' = Bump(translations)
    /\ translator_failed' = TranslationFails(reply)
    /\ UNCHANGED <<Session, Harness, trace, cancel_pending, user_input, last_thought_result,
                   GcloudLocals, invoked, interrupted>>

(***************************************************************************)
(* Ctrl-C.  Where it lands depends on the interpreter: the default SIGINT  *)
(* handler raises KeyboardInterrupt at the instruction that is running;    *)
(* asyncio's runner (Python 3.11 and later) instead cancels the main task  *)
(* on the first Ctrl-C, which is delivered as CancelledError at the next   *)
(* await, and raises KeyboardInterrupt on a second one.  While the         *)
(* coroutine is suspended in `await session.call_tool`, either surfaces    *)
(* outside the coroutine's try blocks and asyncio.run ends (lines 250-254  *)
(* and 344-347).                                                           *)
(***************************************************************************)
Blocking == {"prompt", "translating", "next_thought"}

\* KeyboardInterrupt inside the loop body: lines 233-234 and 334-335
InterruptCaught ==
    /\ pc \in Blocking
    /\ pc' = "prompt"
    /\ report' = Said("cancelled", 0)
    /\ interrupted' = (interrupted \/ pc = "next_thought")
    /\ outstanding' = Done(outstanding, "translate")
    /\ UNCHANGED <<Session, Harness, trace,
                   cancel_pending, user_input, SeqLocals, GcloudLocals, calls,
                   invoked, translations, err, translator_failed>>

\* the runner's handler: the task is marked cancelled, the running code goes on
InterruptDeferred ==
    /\ pc \in Blocking
    /\ ~cancel_pending
    /\ cancel_pending' = TRUE
    /\ interrupted' = (interrupted \/ pc = "next_thought")
    /\ UNCHANGED <<Session, Harness, trace, outstanding,
                   pc, user_input, SeqLocals, GcloudLocals, calls, invoked,
                   translations, report, err, translator_failed>>

\* Ctrl-C while call_tool is awaited: the session ends with "Exiting..."
InterruptAwait ==
    /\ pc = "calling"
    /\ pc' = "exited"
    /\ report' = Said("exiting", 0)
    /\ interrupted' = TRUE
    /\ UNCHANGED <<Session, Harness, trace, outstanding,
                   cancel_pending, user_input, SeqLocals, GcloudLocals, calls,
                   invoked, translations, err, translator_failed>>

Interrupt == InterruptCaught \/ InterruptDeferred \/ InterruptAwait

(***************************************************************************)
(* gcloud_mcp_interactive.py.  A command string is the sequence of its     *)
(* space-separated lexemes: the two sentinels, the step separator, a lone  *)
(* quote character and ordinary words.                                     *)
(***************************************************************************)
NeedInfo == "Need more info:"
MultiStep == "Multi-step:"
AndSep == "&&"
GQuote == "'"

\* str.startswith for a one-lexeme prefix
startswith(s, prefix) == s # << >> /\ s[1] = prefix

\* a variant that compares the whole output with the sentinel
IsNeedInfo_Exact(s) == s = <<NeedInfo>>

\* line 250
IsNeedInfo(s) == startswith(s, NeedInfo)
\* line 255
IsMultiStep(s) == startswith(s, MultiStep)

\* a variant that returns the steps last first
RECURSIVE Split_LastFirst(_)
Split_LastFirst(s) ==
    LET seps == {j \in 2 .. Len(s) - 1 : s[j] = AndSep}
    IN  IF seps = {} THEN <<s>>
        ELSE LET j == CHOOSE x \in seps : \A y \in seps : x <= y
             IN  Split_LastFirst(SubSeq(s, j + 1, Len(s))) \o <<SubSeq(s, 1, j - 1)>>

\* str.split(" && ") of a stripped string: a separator has a lexeme on either side
RECURSIVE Split(_)
Split(s) ==
    LET seps == {j \in 2 .. Len(s) - 1 : s[j] = AndSep}
    IN  IF seps = {} THEN <<s>>
        ELSE LET j == CHOOSE x \in seps : \A y \in seps : x <= y
             IN  <<SubSeq(s, 1, j - 1)>> \o Split(SubSeq(s, j + 1, Len(s)))

\* shlex.split(step) raises ValueError: outside any handler of the step loop
GUnbalanced(s) == Cardinality({j \in 1 .. Len(s) : s[j] = GQuote}) % 2 = 1
GNotQuote(w) == w # GQuote

\* lines 259-261 and 309-313: the argument list, without a leading 'gcloud'
gcloud_args(s) ==
    LET parts == SelectSeq(s, GNotQuote)
    IN  IF parts # << >> /\ parts[1] = "gcloud" THEN Tail(parts) ELSE parts

\* translate_to_gcloud
translate_to_gcloud(key, prompt, reply) ==
    IF ~key THEN prompt
    ELSE IF reply.raises THEN prompt
    ELSE reply.text

\* the strings the model enumerates: a prefix, then up to MaxSteps steps joined by
\* the separator
GBodies == {<<"gcloud", "compute">>, <<"storage">>}
\* a step with an open quote: alone, last, and in the middle of a plan
GOpenQuote == <<"compute", GQuote>>
GBrokenPlans ==
    {<<GOpenQuote>>, <<<<"storage">>, GOpenQuote>>,
     <<<<"storage">>, GOpenQuote, <<"gcloud", "compute">>>>}
GPrefixes == {<< >>, <<NeedInfo>>, <<MultiStep>>, <<NeedInfo, MultiStep>>,
              <<"compute", MultiStep>>}
RECURSIVE Join(_)
Join(plan) ==
    IF plan = << >> THEN << >>
    ELSE IF Len(plan) = 1 THEN plan[1]
    ELSE plan[1] \o <<AndSep>> \o Join(Tail(plan))
GPlans == UNION {[1 .. n -> GBodies] : n \in 0 .. MaxSteps} \cup GBrokenPlans
GStrings == {pre \o Join(plan) : pre \in GPrefixes, plan \in GPlans}
GExit == <<"exit">>
GReplies == {Raised} \cup {Reply(s) : s \in GStrings}

\* a variant that calls the tool the step names
Invocation_ToolFromStep(k, s) ==
    [step |-> k, tool |-> IF s = << >> THEN "" ELSE s[1], args |-> gcloud_args(s)]

\* lines 266-269 and 318-321: the request of call_tool
Invocation(k, s) == [step |-> k, tool |-> "run_gcloud_command", args |-> gcloud_args(s)]

\* lines 237-244
GInput(u) ==
    /\ client = "gcloud" /\ pc = "prompt"
    /\ IF u = << >> THEN UNCHANGED vars
       ELSE IF u = GExit THEN Quit
       ELSE StartTurn(u)

\* a variant whose split never raises: the step with the open quotation is sent
GStepTop_NoRaise(k, plan) ==
    /\ i' = k
    /\ UNCHANGED err
    /\ report' = Said("step", k)
    /\ \E sent \in BOOLEAN :
          /\ AwaitCall(sent)
          /\ invoked' = IF sent THEN Append(invoked, Invocation(k, plan[k])) ELSE invoked
          /\ outstanding' = IF sent THEN Sent(Resumed, "call") ELSE Resumed

\* lines 258-269: step k of the plan, up to the await of call_tool
GStepTop(k, plan) ==
    /\ i' = k
    /\ IF GUnbalanced(plan[k])
       THEN /\ pc' = "prompt"
            /\ err' = "parse"
            /\ report' = Said("error", k)
            /\ outstanding' = Resumed
            /\ UNCHANGED invoked
       ELSE /\ UNCHANGED err
            /\ report' = Said("step", k)
            /\ \E sent \in BOOLEAN :
                  /\ AwaitCall(sent)
                  /\ invoked' = IF sent THEN Append(invoked, Invocation(k, plan[k]))
                                ELSE invoked
                  /\ outstanding' = IF sent THEN Sent(Resumed, "call") ELSE Resumed

\* lines 309-321: a single command, up to the await of call_tool
GSingleTop(s) ==
    /\ i' = 0
    /\ IF GUnbalanced(s)
       THEN /\ pc' = "prompt"
            /\ err' = "parse"
            /\ report' = Said("error", 0)
            /\ outstanding' = Resumed
            /\ UNCHANGED invoked
       ELSE /\ UNCHANGED err
            /\ report' = Said("executing", 0)
            /\ \E sent \in BOOLEAN :
                  /\ AwaitCall(sent)
                  /\ invoked' = IF sent THEN Append(invoked, Invocation(0, s))
                                ELSE invoked
                  /\ outstanding' = IF sent THEN Sent(Resumed, "call") ELSE Resumed

\* lines 247-321: the translation returns and the command is dispatched
GTranslated(reply) ==
    /\ client = "gcloud" /\ pc = "translating"
    /\ LET s == translate_to_gcloud(nlp, user_input, reply)
       IN  /\ command_args_str' = s
           /\ IF IsNeedInfo(s)
              THEN /\ pc' = "prompt"
                   /\ report' = Said("needs_info", 0)
                   /\ outstanding' = Resumed
                   /\ UNCHANGED <<steps, i, invoked, err>>
              ELSE IF IsMultiStep(s)
              THEN /\ steps' = Split(Tail(s))
                   /\ GStepTop(1, steps')
              ELSE /\ steps' = << >>
                   /\ GSingleTop(s)
    /\ translations' = IF nlp THEN Bump(translations) ELSE translations
    /\ translator_failed' = (nlp /\ reply.raises)
    /\ user_input' = << >>
    /\ UNCHANGED <<Session, Harness, trace, cancel_pending, SeqLocals, calls, interrupted>>

\* a variant without the `break` of line 302: the error is reported and the plan
\* goes on with the next step
GStepReturns_NoOuterBreak(r) ==
    /\ client = "gcloud" /\ pc = "calling" /\ i > 0
    /\ IF i = Len(steps)
       THEN /\ pc' = "prompt"
            /\ outstanding' = Resumed
            /\ UNCHANGED <<i, invoked>>
       ELSE /\ pc' = "calling"
            /\ i' = i + 1
            /\ invoked' = Append(invoked, Invocation(i + 1, steps[i + 1]))
            /\ outstanding' = Sent(Resumed, "call")
    /\ err' = IF ResultHasError(r) THEN "application" ELSE err
    /\ report' = IF ResultHasError(r) THEN Said("stopped", i) ELSE Said("step", i)
    /\ UNCHANGED <<Session, Harness, trace,
                   cancel_pending, user_input, SeqLocals, command_args_str,
                   steps, calls, translations, translator_failed, interrupted>>

\* lines 271-302: the call of step i returns r
GStepReturns(r) ==
    /\ client = "gcloud" /\ pc = "calling" /\ i > 0
    /\ IF ResultHasError(r)
       THEN /\ pc' = "prompt"
            /\ err' = "application"
            /\ report' = Said("stopped", i)
            /\ outstanding' = Resumed
            /\ UNCHANGED <<i, invoked>>
       ELSE IF i = Len(steps)
       THEN /\ pc' = "prompt"
            /\ report' = Said("completed", i)
            /\ outstanding' = Resumed
            /\ UNCHANGED <<i, invoked, err>>
       ELSE GStepTop(i + 1, steps)
    /\ UNCHANGED <<Session, Harness, trace,
                   cancel_pending, user_input, SeqLocals, command_args_str,
                   steps, calls, translations, translator_failed, interrupted>>

\* a variant without the `break` of line 305: the loop goes on to the next step
GStepRaises_NoBreak ==
    /\ client = "gcloud" /\ pc = "calling" /\ i > 0
    /\ err' = "remote"
    /\ report' = Said("failed", i)
    /\ IF i = Len(steps)
       THEN /\ pc' = "prompt"
            /\ outstanding' = Resumed
            /\ UNCHANGED <<i, invoked>>
       ELSE /\ pc' = "calling"
            /\ i' = i + 1
            /\ invoked' = Append(invoked, Invocation(i + 1, steps[i + 1]))
            /\ outstanding' = Sent(Resumed, "call")
    /\ UNCHANGED <<Session, Harness, trace,
                   cancel_pending, user_input, SeqLocals, command_args_str,
                   steps, calls, translations, translator_failed, interrupted>>

\* a variant that sends the step that raised once more
GStepRaises_Retry ==
    /\ client = "gcloud" /\ pc = "calling" /\ i > 0
    /\ pc' = "calling"
    /\ err' = "remote"
    /\ report' = Said("failed", i)
    /\ invoked' = Append(invoked, Invocation(i, steps[i]))
    /\ outstanding' = Sent(Resumed, "call")
    /\ UNCHANGED <<Session, Harness, trace,
                   cancel_pending, user_input, SeqLocals, GcloudLocals, calls,
                   translations, translator_failed, interrupted>>

\* lines 303-305: the call of step i raises
GStepRaises ==
    /\ client = "gcloud" /\ pc = "calling" /\ i > 0
    /\ pc' = "prompt"
    /\ err' = "remote"
    /\ report' = Said("failed", i)
    /\ outstanding' = Resumed
    /\ UNCHANGED <<Session, Harness, trace,
                   cancel_pending, user_input, SeqLocals, GcloudLocals, calls,
                   invoked, translations, translator_failed, interrupted>>

\* lines 323-332: the call of a single command returns r
GSingleReturns(r) ==
    /\ client = "gcloud" /\ pc = "calling" /\ i = 0
    /\ pc' = "prompt"
    /\ err' = IF ResultHasError(r) THEN "application" ELSE err
    /\ report' = IF ResultHasError(r) THEN Said("humanized", 0) ELSE Said("printed", 0)
    /\ outstanding' = Resumed
    /\ UNCHANGED <<Session, Harness, trace,
                   cancel_pending, user_input, SeqLocals, GcloudLocals, calls,
                   invoked, translations, translator_failed, interrupted>>

\* lines 318 and 336-337: the call of a single command raises
GSingleRaises ==
    /\ client = "gcloud" /\ pc = "calling" /\ i = 0
    /\ pc' = "prompt"
    /\ err' = "remote"
    /\ report' = Said("error", 0)
    /\ outstanding' = Resumed
    /\ UNCHANGED <<Session, Harness, trace,
                   cancel_pending, user_input, SeqLocals, GcloudLocals, calls,
                   invoked, translations, translator_failed, interrupted>>

GcloudNext ==
    \/ \E u \in GStrings \cup {GExit} : GInput(u)
    \/ \E reply \in (IF nlp THEN GReplies ELSE {Raised}) : GTranslated(reply)
    \/ \E r \in Results : GStepReturns(r)
    \/ GStepRaises
    \/ \E r \in Results : GSingleReturns(r)
    \/ GSingleRaises

SeqNext ==
    \/ \E u \in SeqStrings \cup {Exit} : SeqInput(u)
    \/ \E reply \in (IF nlp THEN SeqReplies ELSE {Raised}) : SeqTranslated(reply)
    \/ \E r \in Results : SeqCallReturns(r)
    \/ SeqCallRaises
    \/ \E reply \in SeqReplies : SeqNextThought(reply)

Init ==
    /\ client \in {"seq", "gcloud"}
    /\ nlp \in BOOLEAN
    /\ pc = "prompt"
    /\ cancel_pending = FALSE
    /\ user_input = << >>
    /\ cmd_str = << >> /\ tool_name = None /\ tool_args = << >>
    /\ last_thought_result = "{}"
    /\ command_args_str = << >> /\ steps = << >> /\ i = 0
    /\ calls = 0 /\ invoked = << >> /\ translations = 0
    /\ report = NoReport /\ err = "none"
    /\ translator_failed = FALSE /\ interrupted = FALSE
    /\ phase = 0 /\ text = << >> /\ server = << >> /\ trace = << >> /\ trace1 = << >>
    /\ outstanding = << >> /\ waited = 0
    /\ current_path = CONTAINER_MOUNT_POINT

Next == SeqNext \/ GcloudNext \/ Interrupt

Spec == Init /\ [][Next]_vars

(***************************************************************************)
(* The thought client under the assumption that the translator and the    *)
(* tool server answer every request and that the coroutine runs when it    *)
(* can.                                                                    *)
(***************************************************************************)
\* the texts the user and the translator produce here: thought calls at the first
\* and at the last thought of three, and a tool that is not the thought tool
FairStrings ==
    {MkCmd("sequentialthinking", f, n, "3") : f \in {"true", "false"}, n \in {"1", "3"}}
        \cup {<<Word("list")>>}
FairReplies == {Raised} \cup {Reply(s) : s \in FairStrings}

\* the steps of sequentialthinking_interactive.py that wait for nothing but the
\* translator or the server
Progress ==
    \/ \E reply \in (IF nlp THEN FairReplies ELSE {Raised}) : SeqTranslated(reply)
    \/ \E r \in Results : SeqCallReturns(r)
    \/ SeqCallRaises
    \/ \E reply \in FairReplies : SeqNextThought(reply)

FairInit == Init /\ client = "seq"

FairNext ==
    \/ \E u \in FairStrings \cup {Exit} : SeqInput(u)
    \/ Progress
    \/ Interrupt

FairSpec == FairInit /\ [][FairNext]_vars /\ WF_vars(Progress)

(***************************************************************************)
(* The thought client with a clock.  Time passes while the coroutine waits *)
(* for the translator or for the server; nothing obliges either to answer. *)
(***************************************************************************)
MaxWait == 3

Waiting == pc = "calling" \/ (nlp /\ pc \in {"translating", "next_thought"})

\* lines 79 and 179: send_message and call_tool are given no timeout, so a tick of
\* the clock changes nothing but the time waited
Tick ==
    /\ Waiting
    /\ waited' = Min(waited + 1, MaxWait)
    /\ UNCHANGED <<Session, pc, cancel_pending, user_input, SeqLocals, GcloudLocals,
                   History, phase, text, server, trace, trace1, outstanding,
                   current_path>>

HangNext == FairNext \/ Tick

HangSpec == FairInit /\ [][HangNext]_vars /\ WF_vars(Tick)

(***************************************************************************)
(* humanize_error.  An error text is the sequence of its words.  A needle  *)
(* of one word is found inside a word (`"--zone" in "[--zone]"`); a needle *)
(* of several words is found where the words of the text are its words.    *)
(***************************************************************************)
MaxPhrases == 2

LowerText(t) == [j \in 1 .. Len(t) |-> Lower(t[j])]

\* frag is a substring of the word w
InWord(frag, w) ==
    \/ frag = w
    \/ <<frag, w>> \in {<<"--zone", "[--zone]">>, <<"zone", "[zone]">>,
                        <<"zone", "[--zone]">>, <<"zone", "--zone">>}

\* `needle in t`
Contains(t, needle) ==
    \E j \in 1 .. Len(t) - Len(needle) + 1 :
        IF Len(needle) = 1 THEN InWord(needle[1], t[j])
        ELSE SubSeq(t, j, j + Len(needle) - 1) = needle

\* line 188: re.search(r"Invalid value for \[([^\]]+)\]", t); the brackets hold at
\* least one character, which is the field (line 190)
Bracketed == {"[zone]", "[--zone]"}
Inner(w) == IF w = "[zone]" THEN "zone" ELSE "--zone"
Matches(t) ==
    {j \in 1 .. Len(t) - 3 :
        SubSeq(t, j, j + 2) = <<"Invalid", "value", "for">> /\ t[j + 3] \in Bracketed}
InvalidValue(t) == Matches(t) # {}
\* match.group(1) of the leftmost match
Field(t) == Inner(t[(CHOOSE j \in Matches(t) : \A l \in Matches(t) : j <= l) + 3])

\* a message: its kind (which of the eight return statements built it), the field
\* it names and the part of the error text it carries
Template(kind) == [kind |-> kind, field |-> "", raw |-> << >>]

\* a variant whose first test is the one for the missing zone
humanize_error_NoSpecialCase(error_text) ==
    IF \/ Contains(error_text, <<"Specify", "the", "[--zone]", "flag">>)
       \/ Contains(error_text, <<"--zone">>)
    THEN Template("zone_missing")
    ELSE IF Contains(error_text, <<"--region">>) THEN Template("region_missing")
    ELSE IF Contains(error_text, <<"--project">>) THEN Template("project_missing")
    ELSE IF \/ Contains(error_text, <<"was", "not", "found">>)
            \/ Contains(error_text, <<"Could", "not", "fetch", "resource">>)
    THEN Template("not_found")
    ELSE IF \/ Contains(error_text, <<"PERMISSION_DENIED">>)
            \/ Contains(error_text, <<"does", "not", "have", "permission">>)
    THEN Template("permission_denied")
    ELSE IF InvalidValue(error_text)
    THEN [kind |-> "invalid_value", field |-> Field(error_text), raw |-> << >>]
    ELSE [kind |-> "command_failed", field |-> "", raw |-> error_text]

\* humanize_error, lines 144-197: the first pattern that matches decides; only
\* the default message (line 196) has the error text in it
humanize_error(error_text) ==
    IF /\ Contains(error_text, <<"set-machine-type">>)
       /\ (\/ Contains(LowerText(error_text), <<"not", "found">>)
           \/ Contains(LowerText(error_text), <<"cannot">>))
    THEN Template("machine_type")
    ELSE IF \/ Contains(error_text, <<"Specify", "the", "[--zone]", "flag">>)
            \/ Contains(error_text, <<"--zone">>)
    THEN Template("zone_missing")
    ELSE IF Contains(error_text, <<"--region">>) THEN Template("region_missing")
    ELSE IF Contains(error_text, <<"--project">>) THEN Template("project_missing")
    ELSE IF \/ Contains(error_text, <<"was", "not", "found">>)
            \/ Contains(error_text, <<"Could", "not", "fetch", "resource">>)
    THEN Template("not_found")
    ELSE IF \/ Contains(error_text, <<"PERMISSION_DENIED">>)
            \/ Contains(error_text, <<"does", "not", "have", "permission">>)
    THEN Template("permission_denied")
    ELSE IF InvalidValue(error_text)
    THEN [kind |-> "invalid_value", field |-> Field(error_text), raw |-> << >>]
    ELSE [kind |-> "command_failed", field |-> "", raw |-> error_text]

\* the texts the model enumerates: with or without the marker, then up to
\* MaxPhrases of these, in any order
Markers == {<< >>, <<"ERROR:">>}
Phrases ==
    {<<"permission", "denied">>, <<"PERMISSION_DENIED">>,
     <<"does", "not", "have", "permission">>, <<"was", "not", "found">>,
     <<"Not", "Found">>, <<"Could", "not", "fetch", "resource">>,
     <<"set-machine-type">>, <<"Cannot">>, <<"Specify", "the", "[--zone]", "flag">>,
     <<"--region">>, <<"--project">>, <<"Invalid", "value", "for", "[zone]">>,
     <<"Invalid", "value", "for", "[]">>}
RECURSIVE Flat(_)
Flat(ps) == IF ps = << >> THEN << >> ELSE ps[1] \o Flat(Tail(ps))
ErrorTexts ==
    {pre \o Flat(ps) : pre \in Markers,
                       ps \in UNION {[1 .. n -> Phrases] : n \in 0 .. MaxPhrases}}

\* what print shows of a message
Shown(m) == [kind |-> m.kind, step |-> 0, field |-> m.field, raw |-> m.raw]

\* gcloud lines 324-330, for a result of one text item: call_tool has returned
\* the text, and it is printed through humanize_error when it carries the marker
HInit ==
    /\ client = "gcloud" /\ nlp = FALSE
    /\ pc = "calling"
    /\ cancel_pending = FALSE
    /\ user_input = << >>
    /\ cmd_str = << >> /\ tool_name = None /\ tool_args = << >>
    /\ last_thought_result = "{}"
    /\ command_args_str = << >> /\ steps = << >> /\ i = 0
    /\ calls = 0 /\ invoked = << >> /\ translations = 0
    /\ report = NoReport /\ err = "none"
    /\ translator_failed = FALSE /\ interrupted = FALSE
    /\ phase = 0 /\ server = << >> /\ trace = << >> /\ trace1 = << >>
    /\ outstanding = <<"call">> /\ waited = 0
    /\ current_path = CONTAINER_MOUNT_POINT
    /\ text \in ErrorTexts

HShow ==
    /\ pc = "calling"
    /\ pc' = "prompt"
    /\ outstanding' = Resumed
    /\ IF Contains(text, <<"ERROR:">>)
       THEN err' = "application" /\ report' = Shown(humanize_error(text))
       ELSE /\ err' = err
            /\ report' = Shown([kind |-> "printed", field |-> "", raw |-> text])
    /\ UNCHANGED <<Session, cancel_pending, user_input, SeqLocals, GcloudLocals, calls,
                   invoked, translations, translator_failed, interrupted, phase, text,
                   server, trace, trace1, waited, current_path>>

HNext == HShow

HumanizeSpec == HInit /\ [][HNext]_vars

(***************************************************************************)
(* parse_command on its own: a command string is drawn, parse_command is   *)
(* applied to it once (line 170) and its two results are kept.             *)
(***************************************************************************)
MaxArgs == 2

ArgKeys == {"a", "b"}
ValueTexts ==
    {"true", "TRUE", "False", "1", "007", "[1,2]", "[a]", "{}", "{1}", "[1,2}",
     "\"x y\"", "\"['a']\"", "hello", ""}
ArgTokens == {KV(key, v) : key \in ArgKeys, v \in ValueTexts} \cup {Word("bare")}

\* foo a=1 b=true c="x y" d=[1,2]
ParseExample ==
    <<Word("foo"), KV("a", "1"), KV("b", "true"), KV("c", "\"x y\""), KV("d", "[1,2]")>>

ParseStrings ==
    {<<Word("foo")>> \o rest : rest \in UNION {[1 .. n -> ArgTokens] : n \in 0 .. MaxArgs}}
    \cup {ParseExample, << >>, <<Word("foo"), Quote>>}

PInit ==
    /\ client = "seq" /\ nlp = FALSE
    /\ pc = "parsing"
    /\ cancel_pending = FALSE
    /\ user_input = << >>
    /\ cmd_str \in ParseStrings
    /\ tool_name = None /\ tool_args = << >>
    /\ last_thought_result = "{}"
    /\ command_args_str = << >> /\ steps = << >> /\ i = 0
    /\ calls = 0 /\ invoked = << >> /\ translations = 0
    /\ report = NoReport /\ err = "none"
    /\ translator_failed = FALSE /\ interrupted = FALSE
    /\ phase = 0 /\ text = "" /\ server = << >> /\ trace = << >> /\ trace1 = << >>
    /\ outstanding = << >> /\ waited = 0
    /\ current_path = CONTAINER_MOUNT_POINT

\* line 170: tool_name, tool_args = parse_command(cmd_str)
PParse ==
    /\ pc = "parsing"
    /\ pc' = "parsed"
    /\ tool_name' = parse_command(cmd_str).tool_name
    /\ tool_args' = parse_command(cmd_str).tool_args
    /\ err' = IF parse_command(cmd_str).tool_name = None THEN "parse" ELSE err
    /\ UNCHANGED <<Session, Harness, cancel_pending, user_input, cmd_str,
                   last_thought_result, GcloudLocals, calls, invoked, translations,
                   report, translator_failed, interrupted, trace, outstanding>>

\* lines 171-179: the placeholder name is fixed, no tool name breaks the loop,
\* otherwise call_tool is awaited
PCall ==
    /\ pc = "parsed"
    /\ tool_name' = FixName(tool_name)
    /\ IF tool_name = None
       THEN pc' = "prompt" /\ report' = Said("nothing", 0) /\ UNCHANGED <<calls, outstanding>>
       ELSE /\ pc' = "calling" /\ report' = Said("executing", 0)
            /\ calls' = Bump(calls)
            /\ outstanding' = Sent(outstanding, "call")
    /\ UNCHANGED <<Session, Harness, cancel_pending, user_input, cmd_str, tool_args,
                   last_thought_result, GcloudLocals, invoked, translations, err,
                   translator_failed, interrupted, trace>>

PNext == PParse \/ PCall

ParseSpec == PInit /\ [][PNext]_vars

(***************************************************************************)
(* puppeteer_interactive.py, run_interactive_session: the translator's     *)
(* output is a list of commands, one per line.  generate_tool_call and     *)
(* parse_command are those of the thought client, line for line.           *)
(***************************************************************************)
MaxLines == 3

\* line 188: the non-empty lines of cmd_str
RECURSIVE splitlines(_)
splitlines(s) ==
    IF NLs(s) = {} THEN (IF s = << >> THEN << >> ELSE <<s>>)
    ELSE LET first == CHOOSE j \in NLs(s) : \A m \in NLs(s) : j <= m
             line == SubSeq(s, 1, first - 1)
             rest == splitlines(SubSeq(s, first + 1, Len(s)))
         IN  IF line = << >> THEN rest ELSE <<line>> \o rest

\* the lines the model enumerates: two commands and one with an open quotation
PupLines ==
    {<<Word("puppeteer_navigate"), KV("url", "x")>>, <<Word("puppeteer_screenshot")>>,
     <<Word("puppeteer_click"), Quote>>}
RECURSIVE JoinLines(_)
JoinLines(lines) ==
    IF lines = << >> THEN << >>
    ELSE IF Len(lines) = 1 THEN lines[1]
    ELSE lines[1] \o <<NL>> \o JoinLines(Tail(lines))
PupOutputs == {JoinLines(ls) : ls \in UNION {[1 .. n -> PupLines] : n \in 0 .. MaxLines}}
PupReplies == {Raised} \cup {Reply(s) : s \in PupOutputs}

PupInit ==
    /\ client = "puppeteer" /\ nlp \in BOOLEAN
    /\ pc = "prompt"
    /\ cancel_pending = FALSE
    /\ user_input = << >>
    /\ cmd_str = << >> /\ tool_name = None /\ tool_args = << >>
    /\ last_thought_result = "{}"
    /\ command_args_str = << >> /\ steps = << >> /\ i = 0
    /\ calls = 0 /\ invoked = << >> /\ translations = 0
    /\ report = NoReport /\ err = "none"
    /\ translator_failed = FALSE /\ interrupted = FALSE
    /\ phase = 0 /\ text = "" /\ server = << >> /\ trace = << >> /\ trace1 = << >>
    /\ outstanding = << >> /\ waited = 0
    /\ current_path = CONTAINER_MOUNT_POINT

\* lines 177-181: input() returns a line
PupInput(u) ==
    /\ client = "puppeteer" /\ pc = "prompt"
    /\ IF u = << >> THEN UNCHANGED vars
       ELSE IF u = Exit THEN Quit
       ELSE /\ user_input' = u
            /\ pc' = "translating"
            /\ cmd_str' = << >> /\ tool_name' = None /\ tool_args' = << >>
            /\ steps' = << >> /\ i' = 0
            /\ calls' = 0 /\ invoked' = << >> /\ translations' = 0
            /\ report' = NoReport /\ err' = "none"
            /\ translator_failed' = FALSE
            /\ trace' = << >>
            /\ outstanding' = IF nlp THEN Sent(outstanding, "translate") ELSE outstanding
            /\ UNCHANGED <<Session, Harness, cancel_pending, last_thought_result,
                           command_args_str, interrupted>>

\* lines 190-198: the for loop from line k of the output on, up to the await of
\* call_tool or to the end of the list; a line that does not parse is skipped
\* (`continue`).  e is the failure recorded so far.
PupFrom(k, commands, e) ==
    LET ok == {j \in k .. Len(commands) : parse_command(commands[j]).tool_name # None}
    IN  IF ok = {}
        THEN /\ pc' = "prompt"
             /\ i' = Len(commands)
             /\ err' = IF k <= Len(commands) THEN "parse" ELSE e
             /\ report' = Said("done", 0)
             /\ outstanding' = Resumed
             /\ UNCHANGED <<tool_name, tool_args, invoked, calls>>
        ELSE LET j == CHOOSE x \in ok : \A y \in ok : x <= y
                 parsed == parse_command(commands[j])
             IN  /\ pc' = "calling"
                 /\ i' = j
                 /\ err' = IF j > k THEN "parse" ELSE e
                 /\ report' = Said("executing", j)
                 /\ tool_name' = parsed.tool_name
                 /\ tool_args' = parsed.tool_args
                 /\ invoked' = Append(invoked, [step |-> j, tool |-> parsed.tool_name,
                                                args |-> parsed.tool_args])
                 /\ calls' = Bump(calls)
                 /\ outstanding' = Sent(Resumed, "call")

\* lines 183-198: the translation returns and the list of commands is entered
PupTranslated(reply) ==
    /\ client = "puppeteer" /\ pc = "translating"
    /\ cmd_str' = generate_tool_call(nlp, user_input, reply)
    /\ steps' = splitlines(cmd_str')
    /\ PupFrom(1, steps', err)
    /\ translations' = IF nlp THEN Bump(translations) ELSE translations
    /\ translator_failed' = (nlp /\ TranslationFails(reply))
    /\ user_input' = << >>
    /\ UNCHANGED <<Session, Harness, trace, cancel_pending, last_thought_result,
                   command_args_str, interrupted>>

\* lines 198-207: call_tool returns, the items are printed, the loop goes on
PupCallReturns ==
    /\ client = "puppeteer" /\ pc = "calling"
    /\ trace' = Append(trace, [step |-> i, raises |-> FALSE])
    /\ PupFrom(i + 1, steps, err)
    /\ UNCHANGED <<Session, Harness, cancel_pending, user_input, cmd_str, steps,
                   last_thought_result, command_args_str, translations,
                   translator_failed, interrupted>>

\* lines 209-210: call_tool raises, the failure is printed, the loop goes on
PupCallRaises ==
    /\ client = "puppeteer" /\ pc = "calling"
    /\ trace' = Append(trace, [step |-> i, raises |-> TRUE])
    /\ PupFrom(i + 1, steps, "remote")
    /\ UNCHANGED <<Session, Harness, cancel_pending, user_input, cmd_str, steps,
                   last_thought_result, command_args_str, translations,
                   translator_failed, interrupted>>

PupNext ==
    \/ \E u \in PupLines \cup {<< >>, Exit} : PupInput(u)
    \/ \E reply \in (IF nlp THEN PupReplies ELSE {Raised}) : PupTranslated(reply)
    \/ PupCallReturns
    \/ PupCallRaises

PuppeteerSpec == PupInit /\ [][PupNext]_vars

(***************************************************************************)
(* Two sessions of the thought client on the same line and the same        *)
(* server, one after the other: the first without translator, the second   *)
(* with a translator that returns its prompt.                              *)
(***************************************************************************)
PTCalls == 2
PTTexts == SeqStrings \ {<< >>}
PTResults == {r \in Results : Len(r) <= 1}
PTOutcomes == {Outcome(TRUE, << >>)} \cup {Outcome(FALSE, r) : r \in PTResults}

\* the turn of the running session has not begun / is over
TurnPending == pc = "prompt" /\ report = NoReport
TurnOver == pc = "prompt" /\ report # NoReport

PTInit ==
    /\ client = "seq" /\ nlp = FALSE
    /\ pc = "prompt"
    /\ cancel_pending = FALSE
    /\ user_input = << >>
    /\ cmd_str = << >> /\ tool_name = None /\ tool_args = << >>
    /\ last_thought_result = "{}"
    /\ command_args_str = << >> /\ steps = << >> /\ i = 0
    /\ calls = 0 /\ invoked = << >> /\ translations = 0
    /\ report = NoReport /\ err = "none"
    /\ translator_failed = FALSE /\ interrupted = FALSE
    /\ phase = 1
    /\ text \in PTTexts
    /\ server \in [1 .. PTCalls -> PTOutcomes]
    /\ trace = << >> /\ trace1 = << >>
    /\ outstanding = << >> /\ waited = 0
    /\ current_path = CONTAINER_MOUNT_POINT

\* line 157: the line is typed
PTInput == phase \in {1, 2} /\ TurnPending /\ SeqInput(text)

\* lines 74-89: without translator the prompt is the command; with it, the
\* translator answers with the prompt it was given
PTTranslated == SeqTranslated(IF nlp THEN Reply(user_input) ELSE Raised)
PTNextThought == SeqNextThought(Reply(NextPrompt))

\* line 179: the server does with the call what it does in both sessions
PTCall ==
    /\ Len(trace) < PTCalls
    /\ LET o == server[Len(trace) + 1]
       IN  IF o.raises THEN SeqCallRaises ELSE SeqCallReturns(o.result)

\* the first session is over; the same script starts again with a translator
PTSwitch ==
    /\ phase = 1 /\ TurnOver
    /\ phase' = 2 /\ nlp' = TRUE
    /\ trace1' = trace /\ trace' = << >>
    /\ pc' = "prompt"
    /\ user_input' = << >>
    /\ cmd_str' = << >> /\ tool_name' = None /\ tool_args' = << >>
    /\ last_thought_result' = "{}"
    /\ calls' = 0 /\ translations' = 0
    /\ report' = NoReport /\ err' = "none"
    /\ translator_failed' = FALSE
    /\ outstanding' = << >>
    /\ UNCHANGED <<client, cancel_pending, GcloudLocals, invoked, interrupted, text,
                   server, waited, current_path>>

PTDone ==
    /\ phase = 2 /\ TurnOver
    /\ phase' = 3
    /\ UNCHANGED <<Session, pc, cancel_pending, user_input, SeqLocals, GcloudLocals,
                   History, text, server, trace, trace1, outstanding, waited, current_path>>

PTNext == PTInput \/ PTTranslated \/ PTCall \/ PTNextThought \/ PTSwitch \/ PTDone

SpecPT == PTInit /\ [][PTNext]_vars

(***************************************************************************)
(* Turns of the thought client with the locals as Python keeps them: cmd_str, *)
(* tool_name, tool_args and last_thought_result hold at the start of a turn *)
(* what the turn before left in them.  phase counts the turns, text is the  *)
(* line typed in the running turn, trace1 is how the turn before ended, and *)
(* trace holds the calls completed in the running turn.                     *)
(***************************************************************************)
MaxTurns == 2
TurnCalls == 2

TurnInit == Init /\ client = "seq"

\* lines 157-164: input() returns the line u
TurnInput(u) ==
    /\ client = "seq" /\ pc = "prompt"
    /\ IF u = << >> THEN UNCHANGED vars
       ELSE IF u = Exit THEN Quit
       ELSE /\ phase < MaxTurns
            /\ phase' = phase + 1
            /\ text' = u
            /\ trace1' = <<report.kind>>
            /\ trace' = << >>
            /\ user_input' = u
            /\ pc' = "translating"
            /\ calls' = 0 /\ translations' = 0
            /\ report' = NoReport /\ err' = "none"
            /\ translator_failed' = FALSE /\ interrupted' = FALSE
            /\ outstanding' = IF nlp THEN Sent(outstanding, "translate") ELSE outstanding
            /\ UNCHANGED <<Session, cancel_pending, SeqLocals, GcloudLocals, invoked,
                           server, waited, current_path>>

TurnNext ==
    \/ \E u \in FairStrings \cup {Exit} : TurnInput(u)
    \/ \E reply \in (IF nlp THEN FairReplies ELSE {Raised}) : SeqTranslated(reply)
    \/ \E r \in PTResults : Len(trace) < TurnCalls /\ SeqCallReturns(r)
    \/ Len(trace) < TurnCalls /\ SeqCallRaises
    \/ \E reply \in FairReplies : SeqNextThought(reply)
    \/ Interrupt

TurnSpec == TurnInit /\ [][TurnNext]_vars

(***************************************************************************)
(* generate_tool_call on its own: the translator returns a text of at most  *)
(* MaxText tokens (fences, line breaks, words) and the adapter's result is  *)
(* kept in cmd_str (line 164).  text holds what the translator returned.    *)
(***************************************************************************)
MaxText == 4

FenceTokens == {Fence, NL, Word("list"), Word("x")}
TranslatorTexts == UNION {[1 .. n -> FenceTokens] : n \in 0 .. MaxText}

FInit ==
    /\ client = "seq" /\ nlp = TRUE
    /\ pc = "translating"
    /\ cancel_pending = FALSE
    /\ user_input = <<Word("think")>>
    /\ cmd_str = << >> /\ tool_name = None /\ tool_args = << >>
    /\ last_thought_result = "{}"
    /\ command_args_str = << >> /\ steps = << >> /\ i = 0
    /\ calls = 0 /\ invoked = << >> /\ translations = 0
    /\ report = NoReport /\ err = "none"
    /\ translator_failed = FALSE /\ interrupted = FALSE
    /\ phase = 0 /\ server = << >> /\ trace = << >> /\ trace1 = << >>
    /\ outstanding = <<"translate">> /\ waited = 0
    /\ current_path = CONTAINER_MOUNT_POINT
    /\ text \in TranslatorTexts

\* line 164: cmd_str = thinker.generate_tool_call(user_input)
FTranslate ==
    /\ pc = "translating"
    /\ pc' = "translated"
    /\ cmd_str' = generate_tool_call(nlp, user_input, Reply(text))
    /\ translations' = Bump(translations)
    /\ translator_failed' = TranslationFails(Reply(text))
    /\ outstanding' = Resumed
    /\ UNCHANGED <<Session, Harness, cancel_pending, user_input, tool_name, tool_args,
                   last_thought_result, GcloudLocals, calls, invoked, report, err,
                   interrupted, trace>>

FNext == FTranslate

FenceSpec == FInit /\ [][FNext]_vars

(***************************************************************************)
(* monitoring_mcp_server.py: the call_tool handler of the monitoring       *)
(* server.  tool_name and tool_args are the name and the arguments of the  *)
(* request, server is the backend (how many log entries match, whether     *)
(* the Google client raises) and trace1 is the list the handler returns.   *)
(* The handler awaits nothing that suspends it, so it is one step.         *)
(***************************************************************************)
MaxLimit == 2
MaxEntries == 3
\* line 166: arguments.get("limit", 100)
DefaultLimit == 100

TextContent(t) == [type |-> "text", text |-> t]
\* json.dumps(result, indent=2): the text of a JSON document
Dumps(v) == [fmt |-> "json", body |-> v]
\* line 178: f"Unknown tool: {name}"
UnknownTool(name) == [fmt |-> "plain", body |-> <<"Unknown tool:", name>>]

\* lines 281-297: the loop over the matching entries 1 .. n; an entry is
\* appended before the length is compared with limit
RECURSIVE Collect(_, _, _, _)
Collect(log_entries, k, n, limit) ==
    IF k > n THEN log_entries
    ELSE LET appended == Append(log_entries, k)
         IN  IF Len(appended) >= limit THEN appended
             ELSE Collect(appended, k + 1, n, limit)

\* lines 257-305
query_logs(limit, backend) ==
    IF backend.down THEN [error |-> <<"backend">>]
    ELSE LET log_entries == Collect(<< >>, 1, backend.entries, limit)
         IN  [log_entry_count |-> Len(log_entries), log_entries |-> log_entries]

\* lines 186-253 and 308-342: the two other tools, which return every match
list_all(backend) ==
    IF backend.down THEN [error |-> <<"backend">>]
    ELSE [count |-> backend.entries, items |-> [k \in 1 .. backend.entries |-> k]]

\* the arguments read with arguments[...] (lines 150-151, 163, 172)
Required(name) ==
    CASE name = "query_time_series" -> {"project_id", "metric_type"}
      [] name \in {"query_logs", "list_metrics"} -> {"project_id"}
      [] OTHER -> {}

Returned(items) == [raised |-> FALSE, items |-> items]
KeyError(key) == [raised |-> TRUE, items |-> << >>, what |-> key]

\* a variant without the handler of lines 180-183
call_tool_NoCatch(name, arguments, backend) ==
    LET missing == Required(name) \ DOMAIN arguments
    IN  IF name \notin {"query_time_series", "query_logs", "list_metrics"}
        THEN Returned(<<TextContent(UnknownTool(name))>>)
        ELSE IF missing # {} THEN KeyError(CHOOSE key \in missing : TRUE)
        ELSE IF name = "query_logs"
        THEN Returned(<<TextContent(Dumps(
                 query_logs(AsInt(Get(arguments, "limit", PyInt(DefaultLimit))), backend)))>>)
        ELSE Returned(<<TextContent(Dumps(list_all(backend)))>>)

\* lines 144-183
call_tool(name, arguments, backend) ==
    LET tried == call_tool_NoCatch(name, arguments, backend)
    IN  IF tried.raised
        THEN Returned(<<TextContent(Dumps(
                 [error |-> <<"Error executing", name, tried.what>>]))>>)
        ELSE tried

MonNames == {"query_time_series", "query_logs", "list_metrics", "restart"}
MonValue(key, limit) == IF key = "limit" THEN PyInt(limit) ELSE PyStr(key)
MonArguments ==
    {[key \in keys |-> MonValue(key, limit)] :
        keys \in SUBSET {"project_id", "metric_type", "limit"}, limit \in 0 .. MaxLimit}
Backends == [entries : 0 .. MaxEntries, down : BOOLEAN]

MonInit ==
    /\ client = "monitoring" /\ nlp = FALSE
    /\ pc = "handling"
    /\ cancel_pending = FALSE
    /\ user_input = << >>
    /\ cmd_str = << >>
    /\ tool_name \in MonNames /\ tool_args \in MonArguments
    /\ last_thought_result = "{}"
    /\ command_args_str = << >> /\ steps = << >> /\ i = 0
    /\ calls = 0 /\ invoked = << >> /\ translations = 0
    /\ report = NoReport /\ err = "none"
    /\ translator_failed = FALSE /\ interrupted = FALSE
    /\ phase = 0 /\ text = "" /\ trace = << >> /\ trace1 = << >>
    /\ outstanding = << >> /\ waited = 0
    /\ current_path = CONTAINER_MOUNT_POINT
    /\ server \in Backends

\* the transport hands a request to the handler and gets its answer
MonCall ==
    /\ client = "monitoring" /\ pc = "handling"
    /\ LET answer == call_tool(tool_name, tool_args, server)
       IN  /\ pc' = "returned"
           /\ err' = IF answer.raised THEN "propagated" ELSE err
           /\ trace1' = answer.items
           /\ calls' = Bump(calls)
    /\ UNCHANGED <<Session, cancel_pending, user_input, SeqLocals, GcloudLocals, invoked,
                   translations, report, translator_failed, interrupted, phase, text,
                   server, trace, outstanding, waited, current_path>>

MonNext == MonCall

MonitorSpec == MonInit /\ [][MonNext]_vars

(***************************************************************************)
(* filesystem_interactive.py, run_interactive_session: the loop with the   *)
(* client-side change of directory.  A turn is given here by what line 203 *)
(* parses from the command string: a tool name (None when nothing parses)  *)
(* and the arguments, whose path is a path string, a number, a boolean or  *)
(* absent.                                                                 *)
(***************************************************************************)
MaxDepth == 2
MaxPathLen == 3

\* lines 209-210: `if new_path:` for what tool_args.get('path') gives
HasPath(args) ==
    /\ "path" \in DOMAIN args
    /\ IF args["path"].t = "str" THEN args["path"].s # Path(FALSE, << >>)
       ELSE Truthy(args["path"])

\* lines 212-213
Resolved(cur, new_path) ==
    IF PathStartsWith(new_path, Path(FALSE, <<"..">>))
    THEN normpath(join(cur, new_path))
    ELSE new_path

\* a variant that accepts every path
Accepted_Any(new_path) == TRUE

\* line 216, negated
Accepted(new_path) == PathStartsWith(new_path, CONTAINER_MOUNT_POINT)

\* a variant that sends change_directory to the server
IsChangeDirectory_Never(name) == FALSE

\* line 208
IsChangeDirectory(name) == name = "change_directory"

\* lines 209-221: the new current_path and what is printed; str methods on a
\* path that is no string raise AttributeError, caught at line 239
change_directory(cur, args) ==
    IF ~HasPath(args) THEN [path |-> cur, said |-> "nothing"]
    ELSE IF args["path"].t # "str" THEN [path |-> cur, said |-> "error"]
    ELSE LET new_path == Resolved(cur, args["path"].s)
         IN  IF Accepted(new_path) THEN [path |-> new_path, said |-> "changed"]
             ELSE [path |-> cur, said |-> "rejected"]

FsNames == {"projects", "projects2", ".."}
FsPaths ==
    {Path(abs, parts) : abs \in BOOLEAN,
                        parts \in UNION {[1 .. n -> FsNames] : n \in 0 .. MaxDepth}}
FsValues == {PyStr(path) : path \in FsPaths} \cup {PyInt(5), PyBool(TRUE), PyInt(0)}
FsArguments == {<< >>} \cup {[key \in {"path"} |-> v] : v \in FsValues}
\* what parse_command returns: nothing (None with no arguments), a change of
\* directory with any argument, another tool with or without a path
FsParsed ==
    {<<None, << >> >>}
        \cup {<<"change_directory", args>> : args \in FsArguments}
        \cup {<<"list_directory", args>> :
                 args \in {<< >>, [key \in {"path"} |-> PyStr(CONTAINER_MOUNT_POINT)]}}

FsInit ==
    /\ client = "filesystem" /\ nlp \in BOOLEAN
    /\ pc = "prompt"
    /\ cancel_pending = FALSE
    /\ user_input = << >>
    /\ cmd_str = << >> /\ tool_name = None /\ tool_args = << >>
    /\ last_thought_result = "{}"
    /\ command_args_str = << >> /\ steps = << >> /\ i = 0
    /\ calls = 0 /\ invoked = << >> /\ translations = 0
    /\ report = NoReport /\ err = "none"
    /\ translator_failed = FALSE /\ interrupted = FALSE
    /\ phase = 0 /\ text = "" /\ server = << >> /\ trace = << >> /\ trace1 = << >>
    /\ outstanding = << >> /\ waited = 0
    /\ current_path = CONTAINER_MOUNT_POINT

\* lines 192-226: a line is read, translated and parsed to name and args; the
\* turn ends at a `continue` or is suspended in the await of call_tool
FsTurn(name, args) ==
    /\ client = "filesystem" /\ pc = "prompt"
    /\ tool_name' = name /\ tool_args' = args
    /\ translations' = IF nlp THEN 1 ELSE 0
    /\ IF name = None
       THEN /\ pc' = "prompt" /\ calls' = 0 /\ err' = "parse"
            /\ report' = Said("nothing", 0)
            /\ UNCHANGED <<current_path, outstanding>>
       ELSE IF IsChangeDirectory(name)
       THEN LET done == change_directory(current_path, args)
            IN  /\ Len(done.path.parts) <= MaxPathLen
                /\ pc' = "prompt" /\ calls' = 0
                /\ current_path' = done.path
                /\ report' = Said(done.said, 0)
                /\ err' = IF done.said = "error" THEN "local" ELSE "none"
                /\ UNCHANGED outstanding
       ELSE /\ pc' = "calling" /\ calls' = 1 /\ err' = "none"
            /\ report' = Said("executing", 0)
            /\ outstanding' = Sent(outstanding, "call")
            /\ UNCHANGED current_path
    /\ UNCHANGED <<Session, cancel_pending, user_input, cmd_str, last_thought_result,
                   GcloudLocals, invoked, translator_failed, interrupted, phase, text,
                   server, trace, trace1, waited>>

\* lines 226-232: call_tool returns and the items are printed
FsCallReturns ==
    /\ client = "filesystem" /\ pc = "calling"
    /\ pc' = "prompt"
    /\ report' = Said("done", 0)
    /\ outstanding' = Resumed
    /\ UNCHANGED <<Session, Harness, cancel_pending, user_input, SeqLocals, GcloudLocals,
                   calls, invoked, translations, err, translator_failed, interrupted,
                   trace>>

\* lines 234-235: call_tool raises and the failure is printed
FsCallRaises ==
    /\ client = "filesystem" /\ pc = "calling"
    /\ pc' = "prompt"
    /\ report' = Said("error", 0) /\ err' = "remote"
    /\ outstanding' = Resumed
    /\ UNCHANGED <<Session, Harness, cancel_pending, user_input, SeqLocals, GcloudLocals,
                   calls, invoked, translations, translator_failed, interrupted, trace>>

FsNext ==
    \/ \E parsed \in FsParsed : FsTurn(parsed[1], parsed[2])
    \/ FsCallReturns
    \/ FsCallRaises

FsSpec == FsInit /\ [][FsNext]_vars

(***************************************************************************)
(* Properties                                                              *)
(***************************************************************************)

\* the command string of the running client
CommandString == IF client = "seq" THEN cmd_str ELSE command_args_str

\* C1: in the gcloud client, when step k of a plan fails (its call raises, or a text
\* item of its result contains "ERROR:"), the failure is reported with index k, the
\* turn is over, and call_tool was invoked for the steps 1..k and for no other.
C1_PlanStopsAtFirstFailure ==
    (client = "gcloud" /\ report.kind \in {"stopped", "failed"}) =>
        /\ pc = "prompt"
        /\ report.step = i
        /\ Len(invoked) = report.step
        /\ \A j \in 1 .. Len(invoked) : invoked[j].step = j

\* a plan of three steps whose second step failed: two calls were made
C1_Witness ==
    /\ client = "gcloud" /\ Len(steps) = 3
    /\ report \in {Said("stopped", 2), Said("failed", 2)}
    /\ Len(invoked) = 2 /\ pc = "prompt"

\* the arguments of the thought the claims C2 and C3 name
Args13 == parse_command(MkCmd("sequentialthinking", "true", "1", "3")).tool_args
InSeq13 ==
    /\ client = "seq" /\ nlp /\ pc \in {"calling", "next_thought"}
    /\ tool_name = "sequentialthinking" /\ tool_args = Args13

\* C2: a thought sequence whose every step carries thoughtNumber=1, totalThoughts=3,
\* nextThoughtNeeded=true does not go on forever: the turn leaves the loop.
C2_ContinuingSequenceEnds == InSeq13 ~> ~InSeq13

\* C3: the number of loop iterations of one turn has a hard bound whatever the
\* translator returns, so every turn comes to an end (with SequenceBudgetExceeded
\* when the bound is hit): the session is at the prompt, or over, again and again.
C3_EveryTurnEnds == []<>(pc \in {"prompt", "exited"})

\* the executed thought call carries both numbers
HasNumbers == {"thoughtNumber", "totalThoughts"} \subseteq DOMAIN tool_args
FlagIsTrue ==
    "nextThoughtNeeded" \in DOMAIN tool_args /\ tool_args["nextThoughtNeeded"] = PyBool(TRUE)
\* the loop has just decided what follows the call that returned
Decided == client = "seq" /\ report.kind \in {"continuing", "complete", "done"}

C5_DecisionIgnoresResult ==
    Decided =>
        \A r \in Results :
            (ShouldContinue(nlp, tool_name, tool_args, r) = "continue")
                <=> (report.kind = "continuing")

\* the server's result says nextThoughtNeeded false, the call said true, and the
\* loop asks for the next thought
C5_Witness ==
    /\ Decided /\ pc = "next_thought" /\ FlagIsTrue
    /\ last_thought_result = JsonDone

\* C6: when the gcloud translator's output begins with "Need more info:", whatever
\* follows, no remote call is made in the turn and the session is back at the prompt.
C6_NeedsInfoMakesNoCall ==
    (client = "gcloud" /\ startswith(command_args_str, NeedInfo)) =>
        /\ invoked = << >>
        /\ pc \in {"prompt", "exited"}

C6_Witness ==
    /\ client = "gcloud" /\ nlp /\ pc = "prompt" /\ report.kind = "needs_info"
    /\ Len(command_args_str) > 2 /\ command_args_str[1] = NeedInfo
    /\ command_args_str[2] = MultiStep

\* the step in which a translator invocation ends
TranslationReturns ==
    pc \in {"translating", "next_thought"} /\ pc' # pc /\ report'.kind # "cancelled"
\* the prompt handed to the translator
PromptGiven == IF pc = "next_thought" THEN NextPrompt ELSE user_input

\* C8: when the translator raises, the command string is the prompt it was given,
\* unchanged, and the step goes on as for a command typed directly: it is parsed
\* and called, or the turn ends at the prompt; the exception ends nothing.
C8_TranslatorFailureFallsBack ==
    [][(TranslationReturns /\ translator_failed') =>
          /\ CommandString' = PromptGiven
          /\ client = "seq" =>
                tool_name' = FixName(parse_command(PromptGiven).tool_name)
          /\ pc' \in {"calling", "prompt"} \/ (pc' = "exited" /\ cancel_pending)]_vars

C8_Witness ==
    /\ translator_failed /\ nlp /\ pc = "calling" /\ CommandString # << >>

\* C9: Ctrl-C while a call is awaited or while the next thought is requested aborts
\* the plan and keeps the session: once the interrupt is delivered the session is at
\* the prompt, where no step runs and no translation is asked, and it never ends.
C9_InterruptReturnsToPrompt ==
    interrupted =>
        /\ pc # "exited"
        /\ ~cancel_pending => pc = "prompt"

\* C10: no error of a turn ends the REPL loop.  The session ends only when the user
\* types exit/quit or interrupts it; a parse failure, a raising remote call and
\* (gcloud) an "ERROR:" result leave it at the prompt.
C10_ErrorsKeepTheLoop ==
    /\ pc = "exited" => (report.kind \in {"quit", "exiting"} \/ cancel_pending)
    /\ err \in {"parse", "remote"} => pc \in {"prompt", "exited"}
    /\ (client = "gcloud" /\ err = "application") => pc \in {"prompt", "exited"}

C10_Witness ==
    /\ err = "remote" /\ translator_failed /\ pc = "prompt" /\ report.kind # "cancelled"

\* the line is a call of the thought tool that asks for a further thought below
\* the announced total
ContinuingThought(s) ==
    LET p == parse_command(s)
    IN  /\ FixName(p.tool_name) = "sequentialthinking"
        /\ Get(p.tool_args, "nextThoughtNeeded", PyBool(FALSE)) = PyBool(TRUE)
        /\ Get(p.tool_args, "thoughtNumber", PyInt(0)).n
              < Get(p.tool_args, "totalThoughts", PyInt(0)).n

C11_OneRequestOutstanding ==
    /\ Len(outstanding) <= 1
    /\ pc = "calling" => outstanding = <<"call">>
    /\ (nlp /\ pc \in {"translating", "next_thought"}) => outstanding = <<"translate">>
    /\ pc = "prompt" => outstanding = << >>

\* the third call of a thought sequence is awaited, after three translations
C11_Witness ==
    /\ client = "seq" /\ pc = "calling" /\ calls = 3 /\ translations = 3
    /\ outstanding = <<"call">>

\* C12: the steps of a plan are the pieces of the translator's output in the order
\* they appear there, and they are invoked in that order, none skipped: the j-th
\* invocation is step j, and a further step is invoked only from the wait for the
\* step before it, when no step has failed, and is then the only request
\* outstanding.
C12_StepsInOrder ==
    /\ [](client = "gcloud" /\ i > 0 =>
            /\ Join(steps) = Tail(command_args_str)
            /\ \A j \in 1 .. Len(invoked) : invoked[j] = Invocation(j, steps[j]))
    /\ [][(client = "gcloud" /\ invoked # << >> /\ invoked' # invoked /\ invoked' # << >>) =>
            /\ pc = "calling" /\ outstanding = <<"call">>
            /\ err' = "none"
            /\ invoked' = Append(invoked, Invocation(Len(invoked) + 1,
                                                     steps[Len(invoked) + 1]))
            /\ outstanding' = <<"call">>]_vars

\* the third step of a plan whose first two steps differ is awaited
C12_Witness ==
    /\ client = "gcloud" /\ pc = "calling" /\ Len(steps) = 3 /\ Len(invoked) = 3
    /\ steps[1] # steps[2]

\* C13: a result that carries the "ERROR:" marker is a failed step: the turn
\* neither goes on to a further step after it nor reports it as completed.
C13_ErrorMarkerIsFailure ==
    err = "application" =>
        /\ pc # "next_thought"
        /\ report.kind \notin {"continuing", "complete", "done"}

\* C14: when call_tool raises, the step is reported as failed (with its index in a
\* plan), the session is at the prompt, and the step neither asks the translator
\* nor issues a call.
C14_RaisedCallIsCaptured ==
    [][(pc = "calling" /\ err # "remote" /\ err' = "remote") =>
          /\ pc' = "prompt"
          /\ report' \in {Said("tool_failed", 0), Said("error", 0), Said("failed", i)}
          /\ (report'.kind = "failed") = (i > 0)
          /\ translations' = translations
          /\ calls' = calls /\ invoked' = invoked
          /\ outstanding' = << >>]_vars

\* the second step of a plan of three raised
C14_Witness ==
    /\ client = "gcloud" /\ err = "remote" /\ report = Said("failed", 2)
    /\ Len(steps) = 3 /\ Len(invoked) = 2 /\ pc = "prompt"

\* C15: the driver does not wait forever for the server: a wait for a tool call
\* ends (with a timeout error when no answer comes).
C15_CallWaitEnds == (pc = "calling") ~> (pc # "calling")

\* the thoughtNumber of the thought call in args, when it carries one
HasNumber(args) == "thoughtNumber" \in DOMAIN args /\ args["thoughtNumber"].t = "int"

\* C16: in a thought sequence every executed thought has a thoughtNumber above
\* that of the thought executed before it, whatever the translator returned.
C16_ThoughtNumbersIncrease ==
    [][(/\ client = "seq" /\ pc = "next_thought" /\ pc' = "calling"
        /\ tool_name' = "sequentialthinking"
        /\ HasNumber(tool_args) /\ HasNumber(tool_args')) =>
          tool_args'["thoughtNumber"].n > tool_args["thoughtNumber"].n]_vars

\* C17: a returned result whose text is "ERROR: permission denied" is shown as a
\* failure of the permission-denied kind.
C17_PermissionDeniedKind ==
    (pc = "prompt" /\ text = <<"ERROR:", "permission", "denied">>) =>
        report.kind = "permission_denied"

\* a command string without tokens, or with a quotation left open
NoCommand(s) == Unbalanced(s) \/ shlex_split(s) = << >>

\* C18: a command string that yields no tokens or has unbalanced quotes is a
\* parse failure: the pass of the loop that reads it ends at the prompt with no
\* tool name, and no remote call is made for it.
C18_BadCommandMakesNoCall ==
    /\ []((client = "seq" /\ pc = "calling") => ~NoCommand(cmd_str))
    /\ [][(/\ client = "seq" /\ pc \in {"translating", "next_thought"}
           /\ pc' # pc /\ report'.kind # "cancelled"
           /\ NoCommand(cmd_str')) =>
             /\ pc' = "prompt" /\ err' = "parse" /\ tool_name' = None
             /\ calls' = calls /\ outstanding' = << >>]_vars
C18_Witness ==
    /\ client = "seq" /\ pc = "prompt" /\ err = "parse"
    /\ Unbalanced(cmd_str) /\ calls = 1 /\ translations = 2

\* the value the text v of an argument is to become
Coerced(v, x) ==
    IF Lower(v) \in {"true", "false"} THEN x = PyBool(Lower(v) = "true")
    ELSE IF v \in {"1", "007"} THEN x = PyInt(IF v = "1" THEN 1 ELSE 7)
    ELSE IF v \in {"[1,2]", "['a']", "{}"}
    THEN x = (CASE v = "[1,2]" -> PyList(<<PyInt(1), PyInt(2)>>)
                [] v = "['a']" -> PyList(<<PyStr("a")>>)
                [] OTHER -> PyDict(<< >>))
    ELSE x = PyStr(v)

\* C19: a value is coerced to a boolean if it is a boolean literal in any case,
\* else to an integer if it is all digits, else to the decoded structure if it is
\* bracketed and decodes (single quotes read as double quotes), else kept as the
\* string; no value makes the parse fail; the example of the specification
\* parses to a=1, b=true, c="x y", d=[1,2].
C19_CoercionOrder ==
    pc = "parsed" =>
        /\ ~NoCommand(cmd_str) => tool_name = "foo"
        /\ LET parts == shlex_split(cmd_str)
           IN  \A j \in 2 .. Len(parts) :
                  (/\ ~Unbalanced(cmd_str) /\ IsArg(parts[j])
                   /\ \A l \in j + 1 .. Len(parts) : parts[l].k # parts[j].k) =>
                      /\ parts[j].k \in DOMAIN tool_args
                      /\ Coerced(parts[j].v, tool_args[parts[j].k])
        /\ cmd_str = ParseExample =>
              tool_args = [key \in {"a", "b", "c", "d"} |->
                              CASE key = "a" -> PyInt(1)
                                [] key = "b" -> PyBool(TRUE)
                                [] key = "c" -> PyStr("x y")
                                [] OTHER -> PyList(<<PyInt(1), PyInt(2)>>)]
C19_Witness ==
    /\ pc = "parsed" /\ cmd_str = ParseExample
    /\ DOMAIN tool_args = {"a", "b", "c", "d"}
    /\ tool_args["d"].t = "list"

\* C21: when step k of a plan does not parse, the failure is reported, the turn
\* is over, and the calls made in the turn are exactly those of steps 1..k-1:
\* no later step and no undoing call.  No call is ever made for a step that
\* does not parse.
C21_ParseFailureAbortsPlan ==
    /\ []((client = "gcloud" /\ i > 0) =>
            /\ \A j \in 1 .. Len(invoked) : ~GUnbalanced(steps[j])
            /\ err = "parse" =>
                  /\ pc \in {"prompt", "exited"}
                  /\ GUnbalanced(steps[i])
                  /\ invoked = [j \in 1 .. i - 1 |-> Invocation(j, steps[j])])
    /\ [][(client = "gcloud" /\ err # "parse" /\ err' = "parse" /\ i' > 0) =>
            /\ pc' = "prompt"
            /\ report' = Said("error", i')
            /\ invoked' = IF i' = 1 THEN << >> ELSE invoked
            /\ outstanding' = << >>]_vars
C21_Witness ==
    /\ client = "gcloud" /\ pc = "prompt" /\ err = "parse"
    /\ i = 2 /\ Len(steps) = 3 /\ Len(invoked) = 1

\* the tool that is called is not the thought tool
OtherTool == client = "seq" /\ tool_name \notin {None, "sequentialthinking"}

\* C22: the call of a tool other than sequentialthinking is never followed by a
\* continuation, whatever its arguments: the turn ends after it without a
\* translation or another call; a turn whose first command names such a tool
\* makes exactly one call.
C22_OtherToolsCallOnce ==
    /\ []((OtherTool /\ translations <= (IF nlp THEN 1 ELSE 0)
                     /\ pc \in {"calling", "prompt"}) => calls = 1)
    /\ [][(OtherTool /\ pc = "calling" /\ pc' # "calling") =>
            /\ pc' \in {"prompt", "exited"}
            /\ report'.kind # "continuing"
            /\ calls' = calls /\ translations' = translations
            /\ tool_name' = tool_name]_vars
C22_Witness ==
    /\ nlp /\ tool_name = "list" /\ pc = "prompt" /\ calls = 1
    /\ report = Said("done", 0)
    /\ tool_args = [key \in {"thoughtNumber", "totalThoughts", "nextThoughtNeeded"} |->
                       CASE key = "thoughtNumber" -> PyInt(1)
                         [] key = "totalThoughts" -> PyInt(MaxThought)
                         [] OTHER -> PyBool(TRUE)]

\* the result of the call that returned last, as the server script gave it
LastResult == trace[Len(trace)].out.result

StepFailed == err = "remote" \/ (client = "gcloud" /\ err = "application")
NewTurn == pc = "prompt" /\ pc' = "translating"

\* C24: no step of a plan is invoked twice, and after a step has failed no call
\* is made for the rest of the turn.
C24_NoRetry ==
    /\ [](\A j, k \in 1 .. Len(invoked) : invoked[j].step = invoked[k].step => j = k)
    /\ [][(StepFailed /\ ~NewTurn) =>
            /\ calls' = calls /\ invoked' = invoked
            /\ pc' # "calling"
            /\ \A j \in 1 .. Len(outstanding') : outstanding'[j] # "call"]_vars
    /\ [][(pc = "calling" /\ ~StepFailed /\ StepFailed') =>
            /\ calls' = calls /\ invoked' = invoked /\ pc' = "prompt"]_vars
C24_Witness ==
    /\ client = "gcloud" /\ pc = "prompt" /\ err = "remote"
    /\ i = 1 /\ Len(steps) = 2 /\ invoked = <<Invocation(1, steps[1])>>

\* the patterns of the four rules
MissingParameter(t) ==
    Contains(t, <<"--zone">>) \/ Contains(t, <<"--region">>) \/ Contains(t, <<"--project">>)
NotFound(t) ==
    Contains(t, <<"was", "not", "found">>) \/ Contains(t, <<"Could", "not", "fetch", "resource">>)
PermissionDenied(t) ==
    Contains(t, <<"PERMISSION_DENIED">>) \/ Contains(t, <<"does", "not", "have", "permission">>)
Classified == pc = "prompt" /\ Contains(text, <<"ERROR:">>)

\* C25: the kind of an error text is that of the first rule it matches, in the
\* order missing parameter, not found, permission denied, invalid value (with
\* the field), default.
C25_FirstMatchWins ==
    Classified =>
        IF MissingParameter(text)
        THEN report.kind \in {"zone_missing", "region_missing", "project_missing"}
        ELSE IF NotFound(text) THEN report.kind = "not_found"
        ELSE IF PermissionDenied(text) THEN report.kind = "permission_denied"
        ELSE IF InvalidValue(text)
        THEN report.kind = "invalid_value" /\ report.field = Field(text)
        ELSE report.kind = "command_failed"

\* the special case of line 149
MachineType(t) ==
    /\ Contains(t, <<"set-machine-type">>)
    /\ Contains(LowerText(t), <<"not", "found">>) \/ Contains(LowerText(t), <<"cannot">>)

\* C25, amended: a text about set-machine-type that says "not found" or "cannot"
\* in any case gets the machine-type message before any other rule is tried;
\* every other text gets the kind of the first rule it matches, in the order
\* missing parameter, not found, permission denied, invalid value, default.
C25_SpecialCaseThenFirstMatch ==
    Classified =>
        IF MachineType(text) THEN report.kind = "machine_type"
        ELSE IF MissingParameter(text)
        THEN report.kind \in {"zone_missing", "region_missing", "project_missing"}
        ELSE IF NotFound(text) THEN report.kind = "not_found"
        ELSE IF PermissionDenied(text) THEN report.kind = "permission_denied"
        ELSE IF InvalidValue(text)
        THEN report.kind = "invalid_value" /\ report.field = Field(text)
        ELSE report.kind = "command_failed"
C25_Witness ==
    /\ Classified /\ MissingParameter(text) /\ PermissionDenied(text)
    /\ report.kind = "zone_missing"

\* C26: the message shown for an error text carries the error text.
C26_RawTextRetained == Classified => report.raw = text

\* line l of the output has failed: it does not parse, or its call raised
LineFailed(l) ==
    \/ parse_command(steps[l]).tool_name = None
    \/ \E t \in 1 .. Len(trace) : trace[t].step = l /\ trace[t].raises

\* C27: the commands of a several-line output are executed in line order, and no
\* line is executed after a line that failed.
C27_HaltsOnFirstFailure ==
    client = "puppeteer" =>
        /\ \A j, k \in 1 .. Len(invoked) : j < k => invoked[j].step < invoked[k].step
        /\ \A j \in 1 .. Len(invoked) : \A l \in 1 .. invoked[j].step - 1 : ~LineFailed(l)

\* the command string without the tokens after the tool name that have no '='
WithoutBare(s) == IF s = << >> THEN s ELSE <<s[1]>> \o SelectSeq(Tail(s), IsArg)

\* C28: a token without '=' after the tool name does not fail the parse: the
\* command has the tool name and exactly the arguments of the same string
\* without such tokens, and its call is made.
C28_BareTokensAreSkipped ==
    /\ (pc \in {"parsed", "calling"} /\ ~NoCommand(cmd_str)) =>
          /\ tool_name = "foo"
          /\ tool_args = parse_command(WithoutBare(cmd_str)).tool_args
          /\ \A j \in 2 .. Len(cmd_str) : ~IsArg(cmd_str[j]) => cmd_str[j].v \notin DOMAIN tool_args
    /\ pc = "prompt" => NoCommand(cmd_str)
    /\ pc = "calling" => calls = 1
C28_Witness ==
    /\ pc = "calling" /\ calls = 1 /\ tool_name = "foo"
    /\ cmd_str = <<Word("foo"), Word("bare"), KV("a", "1")>>
    /\ DOMAIN tool_args = {"a"}

\* the call of a thought returns and the sequence stops
SequenceStops ==
    /\ client = "seq" /\ nlp /\ tool_name = "sequentialthinking"
    /\ pc = "calling" /\ pc' = "prompt" /\ err' = err /\ ~interrupted'

\* C29: when a thought sequence stops, completion is reported, and the report
\* for "the estimate is reached" is not the report for "no more thoughts needed".
C29_CompletionIsReported ==
    [][SequenceStops =>
          /\ report'.kind \notin {"done", "none"}
          /\ report'.kind = (IF Truthy(Get(tool_args, "nextThoughtNeeded", PyBool(FALSE)))
                             THEN "complete" ELSE "finished")]_vars

\* what the command string of the running pass parses to
Parsed == parse_command(cmd_str)

\* C30: nothing of an earlier turn is used in a turn.  While a call or the next
\* thought is awaited, the tool name and the arguments are those of the command
\* string of this pass, the thought data is that of the last result of this
\* turn, and without a translator the command is the line typed in this turn;
\* whether the loop continues is decided by those arguments; no call is
\* pending when a turn starts.
C30_TurnsShareNoState ==
    /\ []((phase > 0 /\ pc \in {"calling", "next_thought"}) =>
            /\ tool_name = FixName(Parsed.tool_name)
            /\ tool_args = Parsed.tool_args
            /\ (~nlp \/ (translator_failed /\ translations = 1)) => cmd_str = text)
    /\ []((phase > 0 /\ pc = "next_thought") =>
            /\ trace # << >>
            /\ last_thought_result = LastThought(LastResult))
    /\ []((phase > 0 /\ pc = "translating") =>
            \A j \in 1 .. Len(outstanding) : outstanding[j] # "call")
    /\ [][(phase > 0 /\ pc = "calling" /\ trace' # trace /\ err' # "remote") =>
            ((pc' = "next_thought")
               <=> ShouldContinue(nlp, FixName(Parsed.tool_name), Parsed.tool_args, << >>)
                      = "continue")]_vars
C30_Witness ==
    /\ phase = 2 /\ trace1 = <<"cancelled">> /\ pc = "next_thought"
    /\ Len(trace) = 2

\* a text whose first line opens with a fence and whose last token is a fence
Wrapped(t) ==
    LET s == Strip(t)
    IN  Len(s) >= 2 /\ s[1] = Fence /\ s[Len(s)] = Fence /\ NLs(s) # {}
\* what stands between the opening fence line and the closing fence
Between(t) ==
    LET s == Strip(t)
        first == CHOOSE j \in NLs(s) : \A m \in NLs(s) : j <= m
    IN  Strip(SubSeq(s, first + 1, Len(s) - 1))

\* C31: a translator output wrapped in a fenced block comes back as the content
\* between the opening fence line and the closing fence, an output without a
\* leading fence comes back trimmed and otherwise unchanged, and a failure of
\* the stripping gives the prompt back instead of raising.
C31_FenceStripped ==
    pc = "translated" =>
        /\ Wrapped(text) => cmd_str = Between(text)
        /\ ~StartsWithFence(Strip(text)) => cmd_str = Strip(text)
        /\ translator_failed => cmd_str = user_input

\* the handler has answered a query_logs request with a list of entries
Answer == trace1[1].text.body
LogsReturned ==
    /\ client = "monitoring" /\ pc = "returned" /\ tool_name = "query_logs"
    /\ Len(trace1) = 1 /\ trace1[1].text.fmt = "json"
    /\ "log_entries" \in DOMAIN Answer

\* C32: query_logs returns at most `limit` entries, whatever the limit (0
\* included) and however many entries match, and log_entry_count is the number
\* of entries returned.
C32_AtMostLimitEntries ==
    LogsReturned =>
        /\ Len(Answer.log_entries)
              <= AsInt(Get(tool_args, "limit", PyInt(DefaultLimit)))
        /\ Answer.log_entry_count = Len(Answer.log_entries)

\* C38: the handler never raises: whatever the name and the arguments, it
\* returns one text item, which is "Unknown tool: <name>" for a name that is no
\* tool, a JSON object with an "error" field when a required argument is
\* missing or the backend fails, and the tool's JSON result otherwise.
C38_HandlerNeverRaises ==
    (client = "monitoring" /\ pc = "returned") =>
        /\ err # "propagated"
        /\ Len(trace1) = 1 /\ trace1[1].type = "text"
        /\ IF Required(tool_name) = {}
           THEN trace1[1].text.fmt = "plain"
                /\ Answer = <<"Unknown tool:", tool_name>>
           ELSE /\ trace1[1].text.fmt = "json"
                /\ ("error" \in DOMAIN Answer)
                      <=> (server.down \/ ~(Required(tool_name) \subseteq DOMAIN tool_args))
C38_Witness ==
    /\ client = "monitoring" /\ pc = "returned"
    /\ tool_name = "query_time_series" /\ DOMAIN tool_args = {"project_id", "limit"}
    /\ ~server.down
    /\ "error" \in DOMAIN Answer

\* the translator failed on a follow-up prompt of this turn, and the prompt
\* itself went round the loop as the command string
ContinuationFailed == client = "seq" /\ translator_failed /\ translations >= 2

\* C33: when the translator fails on the follow-up prompt, the prompt is the
\* command string, the one call it leads to is the last of the turn, the
\* translator is not asked again, and the turn gets back to the prompt.
C33_FailedContinuationEnds ==
    /\ []((ContinuationFailed /\ pc = "calling") =>
            /\ \E n \in 0 .. MaxThought + 2 : cmd_str = FollowUp(last_thought_result, n)
            /\ ShouldContinue(nlp, tool_name, tool_args, << >>) # "continue")
    /\ [](ContinuationFailed => pc # "next_thought")
    /\ [][(ContinuationFailed /\ ~NewTurn) =>
            /\ calls' = calls /\ translations' = translations
            /\ pc' \in {"prompt", "exited"}]_vars
    /\ [][(pc = "next_thought" /\ translator_failed') =>
            (calls' = calls \/ calls' = calls + 1)]_vars
    /\ ((ContinuationFailed /\ pc = "calling") ~> (pc \in {"prompt", "exited"}))
C33_Witness ==
    /\ ContinuationFailed /\ pc = "prompt" /\ calls = 2 /\ translations = 2
    /\ tool_name = "The" /\ err = "none"

\* the arguments of the thought call that is awaited lack one of the three
\* the decision reads
Incomplete ==
    /\ client = "seq" /\ pc = "calling" /\ tool_name = "sequentialthinking"
    /\ ~({"nextThoughtNeeded", "thoughtNumber", "totalThoughts"} \subseteq DOMAIN tool_args)

\* C34: a thought call whose arguments lack nextThoughtNeeded, thoughtNumber or
\* totalThoughts is the last call of its turn: the driver does not go on to the
\* next thought.
C34_IncompleteArgsStop ==
    [][Incomplete => pc' # "next_thought"]_vars

\* a turn of the filesystem client runs a change_directory command
ChangesDirectory ==
    client = "filesystem" /\ pc = "prompt" /\ tool_name' = "change_directory"

\* C35: the current directory of the filesystem client always begins with the
\* mount point, whatever change_directory commands ran, and a change that is
\* rejected leaves it as it was.
C35_StaysUnderMountPoint ==
    /\ [](client = "filesystem" =>
            /\ current_path.abs /\ current_path.parts # << >>
            /\ current_path.parts[1] \in {"projects", "projects2"})
    /\ [][(ChangesDirectory /\ report'.kind # "changed") =>
            current_path' = current_path]_vars
C35_Witness ==
    /\ client = "filesystem" /\ report = Said("rejected", 0)
    /\ tool_args = [key \in {"path"} |-> PyStr(Path(FALSE, <<"..", "..">>))]
    /\ current_path = Path(TRUE, <<"projects", "projects2">>)

\* C36: change_directory never leads to a remote call, and every other command
\* that parses leads to exactly one, which leaves the current directory as it
\* was.
C36_ChangeDirectoryIsLocal ==
    /\ [][ChangesDirectory =>
            /\ pc' = "prompt" /\ calls' = 0 /\ outstanding' = outstanding]_vars
    /\ [][(client = "filesystem" /\ pc = "prompt"
             /\ tool_name' \notin {None, "change_directory"}) =>
            /\ pc' = "calling" /\ calls' = 1 /\ outstanding' = <<"call">>
            /\ current_path' = current_path]_vars
    /\ [][(client = "filesystem" /\ pc = "calling") =>
            /\ pc' = "prompt" /\ calls' = calls /\ outstanding' = << >>
            /\ current_path' = current_path]_vars
C36_Witness ==
    /\ client = "filesystem" /\ pc = "prompt" /\ report = Said("done", 0)
    /\ tool_name = "list_directory" /\ calls = 1
    /\ current_path = Path(TRUE, <<"projects", "projects2">>)

\* C37: in the gcloud client the translator is asked once in a turn, before any
\* step runs, and not again while the steps run or after one failed; every
\* call of the turn is a call of run_gcloud_command.
C37_OneTranslationPerTurn ==
    /\ [](client = "gcloud" =>
            /\ translations <= 1
            /\ pc = "calling" => translations = (IF nlp THEN 1 ELSE 0)
            /\ \A j \in 1 .. Len(invoked) : invoked[j].tool = "run_gcloud_command")
    /\ [][(client = "gcloud" /\ translations' > translations) =>
            /\ pc = "translating" /\ translations = 0
            /\ invoked = << >> /\ i = 0]_vars
    /\ [][(client = "gcloud" /\ pc = "calling") => translations' = translations]_vars
    /\ [][(client = "gcloud" /\ StepFailed /\ ~NewTurn) =>
            translations' = translations]_vars
C37_Witness ==
    /\ client = "gcloud" /\ nlp /\ pc = "prompt" /\ err = "remote"
    /\ i = 2 /\ Len(steps) = 3 /\ Len(invoked) = 2 /\ translations = 1

=============================================================================
